---- MODULE Spec2Model ----
(***************************************************************************)
(* Titanium: a Bitcask-style key-value store.  The model keeps the log     *)
(* files as byte sequences, so that the record codec (two CRC regions,     *)
(* LEB128 varints), the buffered writer, rotation, crash recovery with     *)
(* truncation and the positional read path are the ones of the source.     *)
(***************************************************************************)
EXTENDS Integers, Sequences, FiniteSets, TLC

(***************************************************************************)
(* Bounds of the model.                                                    *)
(***************************************************************************)
\* Largest sequence number a session may hand out (caps current_seq_no).
MaxSeqNo == 2
\* The bytes of the longest varint handed to the decoder.
MaxVarintLen == 11
\* The bytes the key arena of the index may hold.
MaxArena == 5
\* Largest TTL (milliseconds) handed to set_with_ttl.
MaxTtl == 0
\* Largest time (milliseconds) the clock reaches.
MaxNow == 2
\* Number of times the store may be shut down (close or crash) in one run.
MaxRestarts == 1

(***************************************************************************)
(* Configuration (config.rs): the fields of Config, set to small values as *)
(* kv.rs test_rotation sets max_file_size, so that one record of a one-byte *)
(* key and a one-byte value (15 bytes) fills a file.                        *)
(***************************************************************************)
max_key_size == 1
max_val_size == 1
max_file_size == 15
\* Capacity of the io::BufWriter the Writer wraps its file in (8 KiB in the
\* standard library), scaled with the records: as there, a record within
\* the size limits can be larger than the buffer.
BufCapacity == 14

\* Keys "a", "b" and "ab" (the last one longer than max_key_size).
Keys == {<<97>>, <<98>>, <<97, 98>>}
\* Values "" and one byte.
Values == {<<>>, <<5>>}
TTLs == 0..MaxTtl

\* Option::None of LogEntry::expire_at.
NoTtl == -1

Max(a, b) == IF a >= b THEN a ELSE b

(***************************************************************************)
(* utils/varint.rs, utils/crc.rs: varints and checksums.                   *)
(***************************************************************************)
\* Modulus of the checksum that stands for crc32fast (kept below 2^16 so
\* that products stay inside TLC's integers; the field on disk is 4 bytes).
CrcModulus == 65521

RECURSIVE CrcFold(_, _)
CrcFold(bytes, h) ==
    IF bytes = <<>> THEN h
    ELSE CrcFold(Tail(bytes), (h * 31 + Head(bytes) + 1) % CrcModulus)

\* crc32fast::Hasher::new / update / finalize over one byte span.
Crc32(bytes) == CrcFold(bytes, 0)

\* u32::to_le_bytes
ToLeBytes(n) ==
    << n % 256, (n \div 256) % 256, (n \div 65536) % 256, (n \div 16777216) % 256 >>

\* An encoder that writes the low seven bits only.
EncodeVarintLow(n) == << n % 128 >>

RECURSIVE encode_varint(_)
encode_varint(n) ==
    IF n \div 128 = 0 THEN << n % 128 >>
    ELSE << (n % 128) + 128 >> \o encode_varint(n \div 128)

RECURSIVE Pow2(_)
Pow2(k) == IF k = 0 THEN 1 ELSE 2 * Pow2(k - 1)

\* The numbers of 2^28 and more are all taken as Huge: the engine writes
\* none of them, and each is above every size limit.
Huge == 536870912

\* The bits of (byte & 0x7F) that stay within an integer of maxShift + 4
\* bits when shifted by `shift`.
KeptBits(byte, shift, maxShift) ==
    IF shift + 7 <= maxShift + 4 THEN byte % 128
    ELSE (byte % 128) % Pow2(maxShift + 4 - shift)

\* ((byte & 0x7F) as uN) << shift, for an integer of maxShift + 4 bits: the
\* bits shifted past the width of the integer are dropped.
ShiftedIn(byte, shift, maxShift) ==
    IF KeptBits(byte, shift, maxShift) = 0 THEN 0
    ELSE IF shift >= 28 THEN Huge
    ELSE KeptBits(byte, shift, maxShift) * Pow2(shift)

\* result |= shifted
OrIn(result, shifted) ==
    IF result >= Huge \/ shifted >= Huge THEN Huge ELSE result + shifted

\* decode_varint: the bytes from pos (1-based index pos + 1) on.  maxShift is
\* 28 for u32 and 63 for u64.  The result carries the position after the
\* varint.
RECURSIVE decode_varint_loop(_, _, _, _, _)
decode_varint_loop(bytes, pos, maxShift, shift, result) ==
    IF shift > maxShift THEN [err |-> "VarintDecodeError", val |-> 0, pos |-> pos]
    ELSE IF pos >= Len(bytes) THEN [err |-> "UnexpectedEof", val |-> 0, pos |-> pos]
    ELSE IF bytes[pos + 1] < 128
         THEN [err |-> "Ok", pos |-> pos + 1,
               val |-> OrIn(result, ShiftedIn(bytes[pos + 1], shift, maxShift))]
         ELSE decode_varint_loop(bytes, pos + 1, maxShift, shift + 7,
                                 OrIn(result, ShiftedIn(bytes[pos + 1], shift, maxShift)))

decode_varint(bytes, pos, maxShift) == decode_varint_loop(bytes, pos, maxShift, 0, 0)

(***************************************************************************)
(* utils/varint.rs at full width.  An integer is the sequence of its bits, *)
(* lowest first; a type gives the number of bits and the largest shift the *)
(* decoder accepts.                                                        *)
(***************************************************************************)
\* A 32-bit decoder that gives up one byte later.
U32Late == [bits |-> 32, max_shift |-> 35]

U32 == [bits |-> 32, max_shift |-> 28]
U64 == [bits |-> 64, max_shift |-> 63]

\* encode_varint: b = (n & 0x7F) as u8; n >>= 7; the continuation bit is set
\* while n != 0.
RECURSIVE encode_varint_bits(_)
encode_varint_bits(n) ==
    IF \A i \in 8..Len(n) : n[i] = 0
    THEN << n[1] + 2 * n[2] + 4 * n[3] + 8 * n[4] + 16 * n[5] + 32 * n[6] + 64 * n[7] >>
    ELSE << n[1] + 2 * n[2] + 4 * n[3] + 8 * n[4] + 16 * n[5] + 32 * n[6] + 64 * n[7]
            + 128 >>
         \o encode_varint_bits(SubSeq(n, 8, Len(n)) \o << 0, 0, 0, 0, 0, 0, 0 >>)

\* result |= ((byte & 0x7F) as uN) << shift: the bits shifted past the width
\* are dropped.
OrShifted(result, byte, shift) ==
    [i \in 1..Len(result) |->
        IF i > shift /\ i <= shift + 7 /\ (byte \div Pow2(i - 1 - shift)) % 2 = 1
        THEN 1 ELSE result[i]]

\* decode_varint at full width, from the byte at pos on.
RECURSIVE decode_varint_bits(_, _, _, _, _)
decode_varint_bits(bytes, pos, max_shift, shift, result) ==
    IF shift > max_shift THEN [err |-> "VarintDecodeError", val |-> <<>>, pos |-> pos]
    ELSE IF pos >= Len(bytes) THEN [err |-> "UnexpectedEof", val |-> <<>>, pos |-> pos]
    ELSE IF bytes[pos + 1] < 128
         THEN [err |-> "Ok", pos |-> pos + 1,
               val |-> OrShifted(result, bytes[pos + 1], shift)]
         ELSE decode_varint_bits(bytes, pos + 1, max_shift, shift + 7,
                                 OrShifted(result, bytes[pos + 1], shift))

\* The integers of a type handed to the encoder: those whose one bits are
\* one run that starts and ends next to a multiple of seven or at the ends
\* of the type (0 and the largest value among them).
VarintNumbers(type) ==
    {[i \in 1..type.bits |-> IF lo < i /\ i <= hi THEN 1 ELSE 0] :
        lo \in {k \in 0..type.bits : k % 7 \in {0, 6} \/ k = type.bits},
        hi \in {k \in 0..type.bits : k % 7 \in {0, 1} \/ k = type.bits}}

(***************************************************************************)
(* log_entry.rs: the record codec.                                         *)
(***************************************************************************)
TOMBSTONE == 1
TTL == 4
NORMAL == 0
DELETE == TOMBSTONE

is_tombstone(entry_type) == (entry_type % 2) = 1
has_ttl(entry_type) == ((entry_type \div 4) % 2) = 1

\* LogEntry::new(key, value, seq).build()
NewEntry(key, value, seq, created_at) ==
    [entry_type |-> NORMAL, key |-> key, value |-> value,
     sequence_number |-> seq, created_at |-> created_at, expire_at |-> NoTtl]

\* LogEntry::new(key, value, seq).with_ttl(expire_at).build()
NewTtlEntry(key, value, seq, created_at, expire_at) ==
    [entry_type |-> TTL, key |-> key, value |-> value,
     sequence_number |-> seq, created_at |-> created_at, expire_at |-> expire_at]

\* LogEntry::new_tombstone(key, seq)
new_tombstone(key, seq, created_at) ==
    [entry_type |-> DELETE, key |-> key, value |-> <<>>,
     sequence_number |-> seq, created_at |-> created_at, expire_at |-> NoTtl]

\* The metadata bytes both CRC computations run over: type, created_at,
\* seq, k_len, v_len and expire_at when there is one.
MetaBytes(entry_type, created_at, sequence_number, k_len, v_len, expire_at) ==
    << entry_type >> \o encode_varint(created_at) \o encode_varint(sequence_number)
        \o encode_varint(k_len) \o encode_varint(v_len)
        \o (IF expire_at # NoTtl THEN encode_varint(expire_at) ELSE <<>>)

\* The stack buffer of encode_header.
HeaderFields(e) ==
    MetaBytes(e.entry_type, e.created_at, e.sequence_number,
              Len(e.key), Len(e.value), e.expire_at)

\* The five write_all calls of encode_header and encode_to, in order.
EncodePieces(e) ==
    << ToLeBytes(Crc32(HeaderFields(e) \o e.key)),
       HeaderFields(e),
       e.key,
       ToLeBytes(Crc32(e.value)),
       e.value >>

RECURSIVE Concat(_)
Concat(seqs) == IF seqs = <<>> THEN <<>> ELSE Head(seqs) \o Concat(Tail(seqs))

\* The bytes of a record, and the byte count encode_to returns.
encode_to(e) == Concat(EncodePieces(e))
EncodedLen(e) == (4 + Len(HeaderFields(e)) + Len(e.key)) + 4 + Len(e.value)

Slice(bytes, from, to) ==
    IF to <= from THEN <<>> ELSE SubSeq(bytes, from + 1, to)

IsUtf8(bytes) == \A i \in 1..Len(bytes) : bytes[i] < 128

NoHeader(res, pos) ==
    [res |-> res, entry_type |-> 0, key |-> <<>>, val_len |-> 0, created_at |-> 0,
     expire_at |-> NoTtl, sequence_number |-> 0, pos |-> pos]

\* Decoder::decode_header_and_key, its steps from the last to the first.
\* Each step takes the fields decoded so far; a varint comes as its
\* [err, val, pos].
\* The key, the header CRC and the UTF-8 check.
HeaderKey(bytes, start, created_at, sequence_number, k_len, v_len, expire) ==
    IF expire.err # "Ok" THEN NoHeader(expire.err, expire.pos)
    ELSE IF expire.pos + k_len > Len(bytes) THEN NoHeader("UnexpectedEof", Len(bytes))
    ELSE IF ToLeBytes(Crc32(MetaBytes(bytes[start + 5], created_at, sequence_number,
                                      k_len, v_len, expire.val)
                            \o Slice(bytes, expire.pos, expire.pos + k_len)))
            # Slice(bytes, start, start + 4)
         THEN NoHeader("CrcMismatch", expire.pos + k_len)
    ELSE IF ~IsUtf8(Slice(bytes, expire.pos, expire.pos + k_len))
         THEN NoHeader("InvalidData", expire.pos + k_len)
    ELSE [res |-> "Ok", entry_type |-> bytes[start + 5],
          key |-> Slice(bytes, expire.pos, expire.pos + k_len),
          val_len |-> v_len, created_at |-> created_at,
          expire_at |-> expire.val, sequence_number |-> sequence_number,
          pos |-> expire.pos + k_len]

\* A decoder without the size check.
HeaderExpireUnchecked(bytes, start, maxKey, maxVal, created_at, sequence_number, k_len, v_len) ==
    IF v_len.err # "Ok" THEN NoHeader(v_len.err, v_len.pos)
    ELSE HeaderKey(bytes, start, created_at, sequence_number, k_len, v_len.val,
                   IF has_ttl(bytes[start + 5]) THEN decode_varint(bytes, v_len.pos, 63)
                   ELSE [err |-> "Ok", val |-> NoTtl, pos |-> v_len.pos])

\* The size check, and expire_at when the TTL bit is set.
HeaderExpire(bytes, start, maxKey, maxVal, created_at, sequence_number, k_len, v_len) ==
    IF v_len.err # "Ok" THEN NoHeader(v_len.err, v_len.pos)
    ELSE IF k_len > maxKey \/ v_len.val > maxVal THEN NoHeader("InvalidData", v_len.pos)
    ELSE HeaderKey(bytes, start, created_at, sequence_number, k_len, v_len.val,
                   IF has_ttl(bytes[start + 5]) THEN decode_varint(bytes, v_len.pos, 63)
                   ELSE [err |-> "Ok", val |-> NoTtl, pos |-> v_len.pos])

HeaderVLen(bytes, start, maxKey, maxVal, created_at, sequence_number, k_len) ==
    IF k_len.err # "Ok" THEN NoHeader(k_len.err, k_len.pos)
    ELSE HeaderExpire(bytes, start, maxKey, maxVal, created_at, sequence_number,
                      k_len.val, decode_varint(bytes, k_len.pos, 28))

HeaderKLen(bytes, start, maxKey, maxVal, created_at, sequence_number) ==
    IF sequence_number.err # "Ok" THEN NoHeader(sequence_number.err, sequence_number.pos)
    ELSE HeaderVLen(bytes, start, maxKey, maxVal, created_at, sequence_number.val,
                    decode_varint(bytes, sequence_number.pos, 28))

HeaderSeqNo(bytes, start, maxKey, maxVal, created_at) ==
    IF created_at.err # "Ok" THEN NoHeader(created_at.err, created_at.pos)
    ELSE HeaderKLen(bytes, start, maxKey, maxVal, created_at.val,
                    decode_varint(bytes, created_at.pos, 63))

\* A decoder that takes a stream ending inside the header CRC for a clean
\* end of stream.
DecodeShortCrcAsNone(bytes, start, maxKey, maxVal) ==
    IF start + 4 > Len(bytes) THEN NoHeader("None", start)
    ELSE IF start + 5 > Len(bytes) THEN NoHeader("UnexpectedEof", Len(bytes))
    ELSE HeaderSeqNo(bytes, start, maxKey, maxVal, decode_varint(bytes, start + 5, 63))

\* Decoder::decode_header_and_key on the stream `bytes` read from `start`.
\* res is "None" (clean end of stream), "Ok", or the error; pos is the
\* position of the reader when the decoder returns (after the key when res
\* is "Ok").
decode_header_and_key(bytes, start, maxKey, maxVal) ==
    IF start >= Len(bytes) THEN NoHeader("None", start)
    ELSE IF start + 4 > Len(bytes) THEN NoHeader("UnexpectedEof", Len(bytes))
    ELSE IF start + 5 > Len(bytes) THEN NoHeader("UnexpectedEof", Len(bytes))
    ELSE HeaderSeqNo(bytes, start, maxKey, maxVal, decode_varint(bytes, start + 5, 63))

NoEntry(res) ==
    [res |-> res, entry_type |-> 0, key |-> <<>>, value |-> <<>>,
     sequence_number |-> 0, created_at |-> 0, expire_at |-> NoTtl]

\* Decoder::decode_from after its header: the body CRC and the value.
decode_body(bytes, header) ==
    IF header.res # "Ok" THEN NoEntry(header.res)
    ELSE IF header.pos + 4 > Len(bytes) THEN NoEntry("UnexpectedEof")
    ELSE IF header.pos + 4 + header.val_len > Len(bytes) THEN NoEntry("UnexpectedEof")
    ELSE IF ToLeBytes(Crc32(Slice(bytes, header.pos + 4, header.pos + 4 + header.val_len)))
            # Slice(bytes, header.pos, header.pos + 4)
         THEN NoEntry("CrcMismatch")
    ELSE [res |-> "Ok", entry_type |-> header.entry_type, key |-> header.key,
          value |-> Slice(bytes, header.pos + 4, header.pos + 4 + header.val_len),
          sequence_number |-> header.sequence_number,
          created_at |-> header.created_at, expire_at |-> header.expire_at]

\* Decoder::decode_from after its header: the position of the reader when
\* the decoder returns.
ReadEnd(bytes, header) ==
    IF header.res # "Ok" THEN header.pos
    ELSE IF header.pos + 4 + header.val_len > Len(bytes) THEN Len(bytes)
    ELSE header.pos + 4 + header.val_len

\* Decoder::decode_from on the stream `bytes` read from `start`.
decode_from(bytes, start, maxKey, maxVal) ==
    decode_body(bytes, decode_header_and_key(bytes, start, maxKey, maxVal))

(***************************************************************************)
(* State.                                                                  *)
(***************************************************************************)
VARIABLES
    backend,          \* "os", "win" (OsFileSystem built for unix, for Windows) or "mem" (MemFileSystem)
    write_mod,        \* config: "Sync" or "Buffer"
    files,            \* the data directory: file id |-> bytes of NNNN.bs
    cuts,             \* lengths a crash may cut the active file back to
    now,              \* SystemTime::now() in milliseconds
    phase,            \* "down", "opened" (after KVStore::new), "ready" (after restore), "failed" (restore returned an error, or create_file in rotate), "faulted" (a write returned an error)
    indexer,          \* KVStore.indexer: key |-> LogIndex
    file_map,         \* KVStore.file_map: ids of the read-only archive handles
    active_file_id,   \* KVStore.active_file_id
    current_seq_no,   \* KVStore.current_seq_no
    current_offset,   \* Writer.current_offset
    cursor,           \* position of the active file handle (MemFile.pos, the OS file offset)
    restarts,         \* number of shutdowns so far
    kv,               \* history: key |-> value of its last acknowledged set, removed keys absent
    session,          \* history: the sequence numbers this session appended
    snap,             \* history: how the store went down and what was readable then
    last              \* history: what the last step did

vars == << backend, write_mod, files, cuts, now, phase, indexer, file_map,
           active_file_id, current_seq_no, current_offset, cursor,
           restarts, kv, session, snap, last >>

SetMax(S) == CHOOSE m \in S : \A n \in S : n <= m
SetMin(S) == CHOOSE m \in S : \A n \in S : m <= n

RECURSIVE SortedIds(_)
SortedIds(S) == IF S = {} THEN <<>> ELSE << SetMin(S) >> \o SortedIds(S \ {SetMin(S)})

\* LogIndex::new(file_id, offset, val_len)
LogIndex(file_id, offset, val_len) ==
    [file_id |-> file_id, offset |-> offset, val_len |-> val_len]

\* Indexer::put, Indexer::remove (Indexer::get: None is the key's absence).
IndexPut(idx, key, entry) ==
    [k \in DOMAIN idx \cup {key} |-> IF k = key THEN entry ELSE idx[k]]
IndexRemove(idx, key) == [k \in DOMAIN idx \ {key} |-> idx[k]]
EmptyIndex == [k \in {} |-> LogIndex(0, 0, 0)]

(***************************************************************************)
(* storage/memory.rs, storage/os.rs: files.                                *)
(***************************************************************************)
\* MemFile::write / a write(2) at the handle's position: the file is
\* zero-filled up to the position when the position is past its end.
WriteAt(bytes, pos, data) ==
    [i \in 1..Max(Len(bytes), pos + Len(data)) |->
        IF i > pos /\ i <= pos + Len(data) THEN data[i - pos]
        ELSE IF i <= Len(bytes) THEN bytes[i] ELSE 0]

\* set_len: resize, zero-filling when growing.  The handle's position stays.
SetLen(bytes, n) == [i \in 1..n |-> IF i <= Len(bytes) THEN bytes[i] ELSE 0]

\* FileSystem::create_file: a new empty file, replacing one of the same name.
create_file(fs, id) == [i \in DOMAIN fs \cup {id} |-> IF i = id THEN <<>> ELSE fs[i]]

\* The .bs ids KVStore::new keeps of list_files: the filter asks
\* Path::is_file, which consults the host file system, where the paths of a
\* MemFileSystem do not exist.
ListedFileIds == IF backend # "mem" THEN DOMAIN files ELSE {}

(***************************************************************************)
(* writer.rs: the buffered writer.                                         *)
(***************************************************************************)
\* BufWriter::flush_buf: one write of the buffered bytes to the file.
FlushBuf(w) ==
    IF w.buf = <<>> THEN w ELSE [buf |-> <<>>, out |-> Append(w.out, w.buf)]

\* BufWriter::write_all_cold after its flush: a piece as large as the
\* buffer goes to the file directly.
BufWriteCold(w, piece, cap) ==
    IF Len(piece) >= cap THEN [w EXCEPT !.out = Append(@, piece)]
    ELSE [w EXCEPT !.buf = @ \o piece]

\* BufWriter::write_all of one piece.
BufWriteAll(w, piece, cap) ==
    IF Len(piece) < cap - Len(w.buf) THEN [w EXCEPT !.buf = @ \o piece]
    ELSE BufWriteCold(IF Len(piece) > cap - Len(w.buf) THEN FlushBuf(w) ELSE w, piece, cap)

RECURSIVE BufWriteAllSeq(_, _, _)
BufWriteAllSeq(w, pieces, cap) ==
    IF pieces = <<>> THEN w
    ELSE BufWriteAllSeq(BufWriteAll(w, Head(pieces), cap), Tail(pieces), cap)

\* Writer::write_entry followed by Writer::flush_to_os (or the flush of
\* Writer::sync): the writes the file receives, in order.
WriterChunks(e) ==
    FlushBuf(BufWriteAllSeq([buf |-> <<>>, out |-> <<>>], EncodePieces(e), BufCapacity)).out

\* The lengths of the data handed to the file after each of its writes.
RECURSIVE ChunkEnds(_, _)
ChunkEnds(chunks, sofar) ==
    IF chunks = <<>> THEN {}
    ELSE {sofar + Len(Head(chunks))} \cup ChunkEnds(Tail(chunks), sofar + Len(Head(chunks)))

\* A length the active file may be cut back to by a crash; whole tells
\* whether the file then ends where the write of a record ended.
Cut(len, whole) == [len |-> len, whole |-> whole]

(***************************************************************************)
(* kv.rs: the engine.  In the actions, \E x \in {v} names the value v.     *)
(***************************************************************************)
NoLast == [op |-> "none"]
NoTtls == [k \in {} |-> [at |-> 0, ttl |-> 0, value |-> <<>>]]
NoSession == [fresh |-> FALSE, seqs |-> <<>>, ttls |-> NoTtls]
NoResult == [res |-> "None", value |-> <<>>]
NoSnap == [how |-> "none", active |-> 0, expect |-> [k \in Keys |-> NoResult]]
WriteOps == {"set", "set_with_ttl", "remove"}

\* The pairs of backend and write mode of a run (the in-memory file system
\* has no crash, so one write mode stands for both there).
Setups == {<<"os", "Sync">>, <<"os", "Buffer">>, <<"mem", "Sync">>}

\* The setups of the runs in which reads are steps: the build for Windows
\* differs from the build for unix in read_at_impl only.
SetupsTtl == Setups \cup {<<"win", "Sync">>}

\* The state before KVStore::new, in one of the setups.
InitOf(setups) ==
    /\ \E s \in setups : backend = s[1] /\ write_mod = s[2]
    /\ files = [i \in {} |-> <<>>]
    /\ cuts = {}
    /\ now = 0
    /\ phase = "down"
    /\ indexer = EmptyIndex
    /\ file_map = {}
    /\ active_file_id = 0
    /\ current_seq_no = 0
    /\ current_offset = 0
    /\ cursor = 0
    /\ restarts = 0
    /\ kv = [k \in {} |-> <<>>]
    /\ session = NoSession
    /\ snap = NoSnap
    /\ last = NoLast

Init == InitOf(Setups)

InitTtl == InitOf(SetupsTtl)

\* KVStore::new: whether the last listed file is reused as the active file.
ReusesLast(ids) == Len(files[SetMax(ids)]) < max_file_size

\* KVStore::new: the id of the active file.
OpenActiveId ==
    IF ListedFileIds = {} THEN 1
    ELSE IF ReusesLast(ListedFileIds) THEN SetMax(ListedFileIds)
    ELSE SetMax(ListedFileIds) + 1

\* KVStore::new: the ids loaded into file_map.
OpenArchiveIds ==
    IF ListedFileIds = {} THEN {}
    ELSE IF ReusesLast(ListedFileIds) THEN ListedFileIds \ {SetMax(ListedFileIds)}
    ELSE ListedFileIds

\* KVStore::new
Open ==
    /\ phase = "down"
    /\ \E id \in {OpenActiveId} :
       \E fs \in {IF id \in DOMAIN files THEN files ELSE create_file(files, id)} :
          /\ files' = fs
          /\ active_file_id' = id
          /\ cursor' = Len(fs[id])
          /\ current_offset' = Len(fs[id])
          /\ cuts' = {Cut(Len(fs[id]), TRUE)}
    /\ file_map' = OpenArchiveIds
    /\ indexer' = EmptyIndex
    /\ current_seq_no' = 0
    /\ phase' = "opened"
    /\ session' = [fresh |-> DOMAIN files = {}, seqs |-> <<>>, ttls |-> NoTtls]
    /\ last' = [op |-> "open", dir |-> [id \in DOMAIN files |-> Len(files[id])]]
    /\ UNCHANGED << backend, write_mod, now, restarts, kv, snap >>

\* A rotation that does not register the old file in file_map.
RotatedUnregistered(en) ==
    [files |-> create_file(en.files, en.active_file_id + 1),
     file_map |-> en.file_map,
     active_file_id |-> en.active_file_id + 1,
     current_offset |-> 0,
     cursor |-> 0,
     cuts |-> {Cut(0, TRUE)}]

\* KVStore::rotate, as a function of the engine and the directory.
Rotated(en) ==
    [files |-> create_file(en.files, en.active_file_id + 1),
     file_map |-> en.file_map \cup {en.active_file_id},
     active_file_id |-> en.active_file_id + 1,
     current_offset |-> 0,
     cursor |-> 0,
     cuts |-> {Cut(0, TRUE)}]

Engine ==
    [files |-> files, file_map |-> file_map, active_file_id |-> active_file_id,
     current_offset |-> current_offset, cursor |-> cursor, cuts |-> cuts]

\* A rotation check that never rotates.
RotateNever(en) == en

\* The rotation check at the head of set and set_with_ttl.
RotateIfFull(en) ==
    IF en.current_offset >= max_file_size THEN Rotated(en) ELSE en

\* The file receives the chunks at the position of its handle; the writer
\* counts the bytes encode_to reports.
AppendChunks(en, chunks, data, bytes_written) ==
    [files |-> [en.files EXCEPT ![en.active_file_id] = WriteAt(@, en.cursor, data)],
     file_map |-> en.file_map,
     active_file_id |-> en.active_file_id,
     current_offset |-> en.current_offset + bytes_written,
     cursor |-> en.cursor + Len(data),
     cuts |-> IF write_mod = "Sync" THEN {Cut(en.cursor + Len(data), TRUE)}
              ELSE en.cuts \cup {Cut(en.cursor + n, n = Len(data)) :
                                    n \in ChunkEnds(chunks, 0)}]

\* Writer::write_entry and the flush or sync after it.
Appended(en, e) == AppendChunks(en, WriterChunks(e), encode_to(e), EncodedLen(e))

Install(en) ==
    /\ files' = en.files
    /\ file_map' = en.file_map
    /\ active_file_id' = en.active_file_id
    /\ current_offset' = en.current_offset
    /\ cursor' = en.cursor
    /\ cuts' = en.cuts

\* The width of the millisecond clock and of expire_at (u64), scaled down
\* with the times of the model.
TimeModulus == 8

\* set_with_ttl: now + ttl.as_millis() as u64.  The cast keeps the low bits
\* of the duration; the u64 addition wraps (a build with overflow checks
\* panics there instead, and nothing is written).
ExpireAt(t, ttl) == (t + (ttl % TimeModulus)) % TimeModulus

\* A counter that is read without being advanced.
StaleSeqNo == current_seq_no

\* KVStore::next_seq_no
next_seq_no == current_seq_no + 1

\* A counter whose increment never fails.
SeqNoNeverOverflows(seq_no) == FALSE

\* KVStore::next_seq_no: checked_add(1) is None at the largest value of the
\* counter, u64::MAX, scaled down to MaxSeqNo.
SeqNoOverflows(seq_no) == seq_no >= MaxSeqNo

\* The handle get reads through: the writer's file, or an archive of file_map.
\* Indexing file_map with an id it does not hold panics.
ReadHandle(file_id) ==
    IF file_id = active_file_id THEN "active"
    ELSE IF file_id \in file_map THEN "archive" ELSE "panic"

\* KVStore::get on what decode_from returned: the end of the stream is an
\* error, an expired record reads as None.
GetDecoded(entry, t) ==
    IF entry.res = "None" THEN NoEntry("UnexpectedEof")
    ELSE IF entry.res # "Ok" THEN entry
    ELSE IF entry.expire_at # NoTtl /\ t > entry.expire_at THEN NoEntry("None")
    ELSE [entry EXCEPT !.res = "Some"]

\* KVStore::get, at the time t.
GetAt(key, t) ==
    IF key \notin DOMAIN indexer THEN NoEntry("None")
    ELSE IF ReadHandle(indexer[key].file_id) = "panic" THEN NoEntry("Panic")
    ELSE GetDecoded(decode_from(files[indexer[key].file_id], indexer[key].offset,
                                max_key_size, max_val_size), t)

Get(key) == GetAt(key, now)

\* What get answers: the outcome and the value.
Outcome(g) == [res |-> g.res, value |-> g.value]
Result(key) == Outcome(Get(key))

\* History of an append: the record, where the index says it is (file_id,
\* offset), where the file handle put it (pos), whether a rotation came
\* first, the files whose content the step changed, and the engine before
\* the step: its offset, its active file, its archives and what get
\* answered.
WriteLast(op, e, en, after) ==
    [op |-> op, key |-> e.key, seq |-> e.sequence_number, rec |-> encode_to(e),
     file_id |-> en.active_file_id, offset |-> en.current_offset, pos |-> en.cursor,
     rotated |-> en.active_file_id # active_file_id,
     offset_before |-> current_offset,
     touched |-> {f \in DOMAIN after.files :
                     f \notin DOMAIN files \/ after.files[f] # files[f]},
     active_before |-> active_file_id,
     file_map_before |-> file_map,
     before |-> [k \in Keys |-> Result(k)]]

\* History of an acknowledged write; ttl is the duration handed to
\* set_with_ttl, NoTtl for set and remove.  session.ttls keeps, for the keys
\* whose last write was a set_with_ttl, when it was issued and with what.
Acknowledge(e, ttl) ==
    /\ session' =
          [session EXCEPT
              !.seqs = Append(@, e.sequence_number),
              !.ttls = IF ttl = NoTtl THEN [k \in DOMAIN @ \ {e.key} |-> @[k]]
                       ELSE [k \in DOMAIN @ \cup {e.key} |->
                               IF k = e.key
                               THEN [at |-> now, ttl |-> ttl, value |-> e.value]
                               ELSE @[k]]]
    /\ kv' = IF is_tombstone(e.entry_type) THEN [k \in DOMAIN kv \ {e.key} |-> kv[k]]
             ELSE [k \in DOMAIN kv \cup {e.key} |-> IF k = e.key THEN e.value ELSE kv[k]]

\* KVStore::set
Set(key, value) ==
    /\ phase = "ready"
    /\ ~SeqNoOverflows(current_seq_no)
    /\ \E en \in {RotateIfFull(Engine)} :
       \E e \in {NewEntry(key, value, next_seq_no, now)} :
       \E after \in {Appended(en, e)} :
          /\ Install(after)
          /\ indexer' = IndexPut(indexer, key,
                           LogIndex(en.active_file_id, en.current_offset, Len(value)))
          /\ Acknowledge(e, NoTtl)
          /\ last' = WriteLast("set", e, en, after)
    /\ current_seq_no' = next_seq_no
    /\ UNCHANGED << backend, write_mod, now, phase, restarts, snap >>

\* KVStore::set_with_ttl
SetWithTtl(key, value, ttl) ==
    /\ phase = "ready"
    /\ ~SeqNoOverflows(current_seq_no)
    /\ \E en \in {RotateIfFull(Engine)} :
       \E e \in {NewTtlEntry(key, value, next_seq_no, now, ExpireAt(now, ttl))} :
       \E after \in {Appended(en, e)} :
          /\ Install(after)
          /\ indexer' = IndexPut(indexer, key,
                           LogIndex(en.active_file_id, en.current_offset, Len(value)))
          /\ Acknowledge(e, ttl)
          /\ last' = WriteLast("set_with_ttl", e, en, after)
    /\ current_seq_no' = next_seq_no
    /\ UNCHANGED << backend, write_mod, now, phase, restarts, snap >>

\* A remove that writes its tombstone whatever the index holds.
RemoveAppendsAlways(key) == TRUE

\* KVStore::remove: the test `self.indexer.get(&key).is_some()`.
RemoveAppends(key) == key \in DOMAIN indexer

\* KVStore::remove: a tombstone when the index holds the key, nothing otherwise.
Remove(key) ==
    /\ phase = "ready"
    /\ IF RemoveAppends(key)
       THEN /\ ~SeqNoOverflows(current_seq_no)
            /\ \E e \in {new_tombstone(key, next_seq_no, now)} :
               \E after \in {Appended(Engine, e)} :
                  /\ Install(after)
                  /\ Acknowledge(e, NoTtl)
                  /\ last' = WriteLast("remove", e, Engine, after)
            /\ indexer' = IndexRemove(indexer, key)
            /\ current_seq_no' = next_seq_no
            /\ UNCHANGED << backend, write_mod, now, phase, restarts, snap >>
       ELSE /\ last' = [op |-> "remove_absent", key |-> key]
            /\ UNCHANGED << backend, write_mod, files, cuts, now, phase, indexer,
                            file_map, active_file_id, current_seq_no, current_offset,
                            cursor, restarts, kv, session, snap >>

\* KVStore::set when next_seq_no fails: the rotation check has run, the
\* error of next_seq_no is returned before anything is encoded.
SetOverflow(key, value) ==
    /\ phase = "ready"
    /\ SeqNoOverflows(current_seq_no)
    /\ Install(RotateIfFull(Engine))
    /\ last' = [op |-> "set_overflow", key |-> key, error |-> "Io"]
    /\ UNCHANGED << backend, write_mod, now, phase, indexer, current_seq_no,
                    restarts, kv, session, snap >>

\* KVStore::set_with_ttl when next_seq_no fails: the rotation check and the
\* computation of expire_at have run.
SetWithTtlOverflow(key, value, ttl) ==
    /\ phase = "ready"
    /\ SeqNoOverflows(current_seq_no)
    /\ Install(RotateIfFull(Engine))
    /\ last' = [op |-> "set_with_ttl_overflow", key |-> key, error |-> "Io"]
    /\ UNCHANGED << backend, write_mod, now, phase, indexer, current_seq_no,
                    restarts, kv, session, snap >>

\* KVStore::remove of a key of the index when next_seq_no fails.
RemoveOverflow(key) ==
    /\ phase = "ready"
    /\ RemoveAppends(key)
    /\ SeqNoOverflows(current_seq_no)
    /\ last' = [op |-> "remove_overflow", key |-> key, error |-> "Io"]
    /\ UNCHANGED << backend, write_mod, files, cuts, now, phase, indexer, file_map,
                    active_file_id, current_seq_no, current_offset, cursor, restarts,
                    kv, session, snap >>

\* read_at_impl, the position of the file handle after the positional reads
\* of FileAtReader that end at `end`: FileExt::read_at (unix) and
\* MemFile::read_at leave the handle's position; FileExt::seek_read
\* (Windows) sets it to the end of the read.
read_at_impl(handle_pos, end) == IF backend = "win" THEN end ELSE handle_pos

\* The record get decodes is TTL-bearing and expired at the time t.
ExpiredEntry(entry, t) ==
    entry.res = "Ok" /\ entry.expire_at # NoTtl /\ t > entry.expire_at

Expired(key) ==
    /\ key \in DOMAIN indexer
    /\ ReadHandle(indexer[key].file_id) # "panic"
    /\ ExpiredEntry(decode_from(files[indexer[key].file_id], indexer[key].offset,
                                max_key_size, max_val_size), now)

\* KVStore::get as a step of the engine: it reads through FileAtReader and
\* assigns no field of the store.
GetCall(key) ==
    /\ phase = "ready"
    /\ cursor' = IF key \in DOMAIN indexer /\ indexer[key].file_id = active_file_id
                 THEN read_at_impl(cursor,
                        ReadEnd(files[active_file_id],
                                decode_header_and_key(files[active_file_id],
                                    indexer[key].offset, max_key_size, max_val_size)))
                 ELSE cursor
    /\ last' = [op |-> "get", key |-> key, res |-> Result(key), expired |-> Expired(key)]
    /\ UNCHANGED << backend, write_mod, files, cuts, now, phase, indexer, file_map,
                    active_file_id, current_seq_no, current_offset, restarts, kv,
                    session, snap >>

\* SystemTime::now() advances by a millisecond.
Tick ==
    /\ phase = "ready"
    /\ now < MaxNow
    /\ now' = now + 1
    /\ UNCHANGED << backend, write_mod, files, cuts, phase, indexer, file_map,
                    active_file_id, current_seq_no, current_offset, cursor, restarts,
                    kv, session, snap, last >>

\* A restore that counts the records it scans.
RestoredSeqNoCounted(seq_no, sequence_number) == seq_no + 1

\* restore: the sequence counter after a scanned record.
RestoredSeqNo(seq_no, sequence_number) == Max(seq_no, sequence_number)

\* A restore that recovers from every error by truncating.
EveryErrorIsCorruption(res) == TRUE

\* restore: is_corruption, the errors it recovers from by truncating.
is_corruption(res) ==
    res \in {"CrcMismatch", "VarintDecodeError", "UnexpectedEof", "InvalidData"}

\* The read_at calls restore makes on one file through its BufReader: the
\* first fill brings the whole file (the files are shorter than the 8 KiB of
\* the buffer), a second one happens when the decoder asks for bytes past
\* the end.  A fault names the call that fails with an I/O error of another
\* kind than UnexpectedEof and InvalidData.
Faults == {"first", "second"}

\* Decoder::decode_header_and_key over the BufReader of restore: `header`
\* when no read fails.
ReadHeader(bytes, offset, fault, header) ==
    IF fault = "first" THEN NoHeader("Io", offset)
    ELSE IF fault = "second" /\ Len(bytes) > 0 /\ header.res \in {"None", "UnexpectedEof"}
         THEN NoHeader("Io", Len(bytes))
    ELSE header

\* The loop of restore over one file.  st = [indexer, seq_no, trunc, met,
\* err]: trunc is the offset the file is to be truncated to, or -1; met is
\* the error the decoder returned, err the error restore returns ("Ok" for
\* none).
RECURSIVE ScanFile(_, _, _, _, _)

\* One turn of the loop, on what decode_header_and_key returned.
ScanHeader(bytes, file_id, offset, fault, st, header) ==
    IF header.res = "None" THEN st
    ELSE IF header.res # "Ok"
         THEN IF is_corruption(header.res)
              THEN [st EXCEPT !.trunc = offset, !.met = header.res]
              ELSE [st EXCEPT !.err = header.res, !.met = header.res]
    ELSE IF header.pos + (4 + header.val_len) > Len(bytes) THEN [st EXCEPT !.trunc = offset]
    ELSE ScanFile(bytes, file_id, header.pos + (4 + header.val_len), fault,
            [indexer |-> IF is_tombstone(header.entry_type)
                         THEN IndexRemove(st.indexer, header.key)
                         ELSE IndexPut(st.indexer, header.key,
                                LogIndex(file_id, offset, header.val_len)),
             seq_no |-> RestoredSeqNo(st.seq_no, header.sequence_number),
             trunc |-> -1, met |-> "Ok", err |-> "Ok"])

\* A scan that decodes whole records, body CRC included.
ScanFileWithBody(bytes, file_id, offset, fault, st) ==
    ScanHeader(bytes, file_id, offset, fault, st,
               ReadHeader(bytes, offset, fault,
                   IF decode_from(bytes, offset, max_key_size, max_val_size).res
                         = "CrcMismatch"
                   THEN NoHeader("CrcMismatch", offset)
                   ELSE decode_header_and_key(bytes, offset, max_key_size, max_val_size)))

ScanFile(bytes, file_id, offset, fault, st) ==
    ScanHeader(bytes, file_id, offset, fault, st,
               ReadHeader(bytes, offset, fault,
                   decode_header_and_key(bytes, offset, max_key_size, max_val_size)))

\* restore over the files `ids` in ascending order, the active file last.
\* r = [indexer, seq_no, files, current_offset, truncated, met, err, fault]:
\* fault is <<file id, call>>, the read that fails (file id 0: none does);
\* met is the set of <<file id, error, offset>> the decoder returned.
RECURSIVE RestoreFiles(_, _)

\* restore after the scan st of the file file_id: the truncation, or the
\* return of the error.
RestoreFile(ids, r, file_id, st) ==
    RestoreFiles(IF st.err # "Ok" THEN <<>> ELSE Tail(ids),
        [indexer |-> st.indexer,
         seq_no |-> st.seq_no,
         files |-> IF st.trunc # -1
                   THEN [r.files EXCEPT ![file_id] = SetLen(@, st.trunc)]
                   ELSE r.files,
         current_offset |-> IF st.trunc # -1 /\ file_id = active_file_id
                            THEN st.trunc ELSE r.current_offset,
         truncated |-> IF st.trunc # -1 THEN r.truncated \cup {<<file_id, st.trunc>>}
                       ELSE r.truncated,
         met |-> IF st.met # "Ok"
                 THEN r.met \cup {<<file_id, st.met,
                                    IF st.trunc # -1 THEN st.trunc ELSE -1>>}
                 ELSE r.met,
         err |-> IF st.err # "Ok" THEN <<file_id, st.err>> ELSE r.err,
         fault |-> r.fault])

RestoreFiles(ids, r) ==
    IF ids = <<>> THEN r
    ELSE RestoreFile(ids, r, Head(ids),
             ScanFile(r.files[Head(ids)], Head(ids), 0,
                      IF r.fault[1] = Head(ids) THEN r.fault[2] ELSE "none",
                      [indexer |-> r.indexer, seq_no |-> r.seq_no, trunc |-> -1,
                       met |-> "Ok", err |-> "Ok"]))

RestoreResult(fault) ==
    RestoreFiles(Append(SortedIds(file_map), active_file_id),
                 [indexer |-> indexer, seq_no |-> current_seq_no, files |-> files,
                  current_offset |-> current_offset, truncated |-> {}, met |-> {},
                  err |-> <<0, "Ok">>, fault |-> fault])

\* KVStore::restore, called once after KVStore::new.  set_len and
\* set_offset leave the position of the file handle where it is.  When a
\* read fails with an error that is not of the corruption class, restore
\* returns it and the store is not used further.
Restore ==
    /\ phase = "opened"
    /\ \E fault \in {<<0, "none">>} \cup ((file_map \cup {active_file_id}) \X Faults) :
       \E r \in {RestoreResult(fault)} :
          /\ indexer' = r.indexer
          /\ current_seq_no' = r.seq_no
          /\ files' = r.files
          /\ current_offset' = r.current_offset
          /\ cuts' = IF \E t \in r.truncated : t[1] = active_file_id
                     THEN {Cut(r.current_offset, TRUE)} ELSE cuts
          /\ last' = IF r.err[2] = "Ok"
                     THEN [op |-> "restore", truncated |-> r.truncated,
                           scanned |-> file_map \cup {active_file_id},
                           met |-> r.met, before |-> files]
                     ELSE [op |-> "restore_failed", truncated |-> r.truncated,
                           file_id |-> r.err[1], error |-> r.err[2],
                           met |-> r.met, before |-> files]
          /\ phase' = IF r.err[2] = "Ok" THEN "ready" ELSE "failed"
    /\ UNCHANGED << backend, write_mod, now, file_map, active_file_id, cursor,
                    restarts, kv, session, snap >>

\* KVStore::restore called on a store in use: the same scan, over the index,
\* the counter and the writer offset as they are.  last.prev is the call
\* before it and what it truncated.
RestoreAgain ==
    /\ phase = "ready"
    /\ \E r \in {RestoreResult(<<0, "none">>)} :
          /\ indexer' = r.indexer
          /\ current_seq_no' = r.seq_no
          /\ files' = r.files
          /\ current_offset' = r.current_offset
          /\ cuts' = IF \E t \in r.truncated : t[1] = active_file_id
                     THEN {Cut(r.current_offset, TRUE)} ELSE cuts
          /\ last' = [op |-> "restore_again", truncated |-> r.truncated,
                      scanned |-> file_map \cup {active_file_id},
                      met |-> r.met, before |-> files,
                      prev |-> [op |-> last.op,
                                truncated |-> IF last.op \in {"restore", "restore_again"}
                                              THEN last.truncated ELSE {}]]
    /\ UNCHANGED << backend, write_mod, now, phase, file_map, active_file_id, cursor,
                    restarts, kv, session, snap >>

(***************************************************************************)
(* The environment: shutdown, crash, truncation of a file.                 *)
(***************************************************************************)
Down ==
    /\ phase' = "down"
    /\ indexer' = EmptyIndex
    /\ file_map' = {}
    /\ active_file_id' = 0
    /\ current_seq_no' = 0
    /\ current_offset' = 0
    /\ cursor' = 0
    /\ cuts' = {}
    /\ restarts' = restarts + 1
    /\ session' = NoSession

\* The store is dropped; the files keep what the writer flushed.
Close ==
    /\ phase = "ready"
    /\ restarts < MaxRestarts
    /\ Down
    /\ snap' = [how |-> "close", active |-> active_file_id,
                expect |-> [k \in Keys |-> Result(k)]]
    /\ last' = [op |-> "close"]
    /\ UNCHANGED << backend, write_mod, files, now, kv >>

\* A crash of the host: the active file keeps its synced bytes and any
\* number of the writes it received since, in order.
Crash ==
    /\ phase = "ready"
    /\ backend = "os"
    /\ restarts < MaxRestarts
    /\ \E c \in cuts :
          /\ files' = [files EXCEPT ![active_file_id] = SetLen(@, c.len)]
          /\ last' = [op |-> "crash", torn |-> ~c.whole,
                      lost |-> c.len < Len(files[active_file_id])]
    /\ Down
    /\ snap' = [how |-> "crash", active |-> active_file_id,
                expect |-> [k \in Keys |-> Result(k)]]
    /\ UNCHANGED << backend, write_mod, now, kv >>

\* The records that are whole in a file, from `offset` on, as a reader
\* without size limits meets them: [offset, entry].
RECURSIVE WholeRecords(_, _)

WholeRecordsAfter(bytes, offset, e) ==
    IF e.res # "Ok" THEN <<>>
    ELSE << [offset |-> offset, entry |-> e] >> \o WholeRecords(bytes, offset + EncodedLen(e))

WholeRecords(bytes, offset) ==
    WholeRecordsAfter(bytes, offset, decode_from(bytes, offset, Len(bytes), Len(bytes)))

\* The records replayed in order over the map m (key |-> value).
RECURSIVE Replay(_, _)
Replay(records, m) ==
    IF records = <<>> THEN m
    ELSE Replay(Tail(records),
            IF is_tombstone(Head(records).entry.entry_type)
            THEN [k \in DOMAIN m \ {Head(records).entry.key} |-> m[k]]
            ELSE [k \in DOMAIN m \cup {Head(records).entry.key} |->
                    IF k = Head(records).entry.key THEN Head(records).entry.value
                    ELSE m[k]])

RECURSIVE ReplayFiles(_, _, _)
ReplayFiles(fs, ids, m) ==
    IF ids = <<>> THEN m
    ELSE ReplayFiles(fs, Tail(ids), Replay(WholeRecords(fs[Head(ids)], 0), m))

Readable(m) ==
    [k \in Keys |-> IF k \in DOMAIN m THEN [res |-> "Some", value |-> m[k]] ELSE NoResult]

\* What the records that are whole in the directory fs make readable.
Survivors(fs) == Readable(ReplayFiles(fs, SortedIds(DOMAIN fs), [k \in {} |-> <<>>]))

\* Prefix truncation, while the store is down after a close, of the file
\* that was active (kv.rs test_restore_unexpected_eof).
Truncate ==
    /\ phase = "down"
    /\ snap.how = "close"
    /\ \E n \in 0..(Len(files[snap.active]) - 1) :
          /\ files' = [files EXCEPT ![snap.active] = SetLen(@, n)]
          /\ snap' = [how |-> "truncate", active |-> snap.active,
                      expect |-> Survivors(files')]
          /\ last' = [op |-> "truncate", len |-> n]
    /\ UNCHANGED << backend, write_mod, cuts, now, phase, indexer, file_map,
                    active_file_id, current_seq_no, current_offset, cursor,
                    restarts, kv, session >>

\* The lengths of the runs of bytes 0xFF written over a file.
CorruptLens == {3, 5}

Overwrite(bytes, pos, n) ==
    [i \in 1..Len(bytes) |-> IF i > pos /\ i <= pos + n THEN 255 ELSE bytes[i]]

\* Bytes of a file overwritten while the store is down after a close
\* (kv.rs test_restore_corrupted_data).
Corrupt ==
    /\ phase = "down"
    /\ snap.how = "close"
    /\ \E f \in DOMAIN files, n \in CorruptLens :
       \E pos \in 0..(Len(files[f]) - 1) :
          /\ files' = [files EXCEPT ![f] = Overwrite(@, pos, n)]
          /\ last' = [op |-> "corrupt", file_id |-> f, pos |-> pos, len |-> n]
    /\ snap' = [snap EXCEPT !.how = "corrupt"]
    /\ UNCHANGED << backend, write_mod, cuts, now, phase, indexer, file_map,
                    active_file_id, current_seq_no, current_offset, cursor,
                    restarts, kv, session >>

Next ==
    \/ Open
    \/ Restore
    \/ \E key \in Keys, value \in Values : Set(key, value)
    \/ \E ttl \in TTLs : SetWithTtl(<<97>>, <<5>>, ttl)
    \/ \E key \in Keys : Remove(key)
    \/ Close
    \/ Crash
    \/ Truncate

Spec == Init /\ [][Next]_vars

\* The runs whose keys and values are all within max_key_size and
\* max_val_size.
KeysWithinLimits == {k \in Keys : Len(k) <= max_key_size}
ValuesWithinLimits == {v \in Values : Len(v) <= max_val_size}

NextWithinLimits ==
    \/ Open
    \/ Restore
    \/ \E key \in KeysWithinLimits, value \in ValuesWithinLimits : Set(key, value)
    \/ \E ttl \in TTLs : SetWithTtl(<<97>>, <<5>>, ttl)
    \/ \E key \in KeysWithinLimits : Remove(key)
    \/ Close
    \/ Crash
    \/ Truncate

SpecWithinLimits == Init /\ [][NextWithinLimits]_vars

\* The runs in which time passes and reads are steps: the durations of
\* set_with_ttl are 0, 1 and the largest one the clock's width holds.
TtlSpans == {0, 1, TimeModulus - 1}

NextTtl ==
    \/ Open
    \/ Restore
    \/ \E key \in KeysWithinLimits, value \in Values : Set(key, value)
    \/ \E ttl \in TtlSpans : SetWithTtl(<<97>>, <<5>>, ttl)
    \/ Remove(<<97>>)
    \/ \E key \in KeysWithinLimits : GetCall(key)
    \/ Tick

SpecTtl == InitTtl /\ [][NextTtl]_vars

\* The runs in which the files are damaged between a close and the next
\* open: overwritten or cut short.
NextRestore ==
    \/ Open
    \/ Restore
    \/ \E key \in KeysWithinLimits, value \in ValuesWithinLimits : Set(key, value)
    \/ \E key \in KeysWithinLimits : GetCall(key)
    \/ Close
    \/ Truncate
    \/ Corrupt

SpecRestore == Init /\ [][NextRestore]_vars

\* The runs in which restore is called again on the store in use.
NextRestoreAgain ==
    \/ Open
    \/ Restore
    \/ RestoreAgain
    \/ \E key \in KeysWithinLimits, value \in ValuesWithinLimits : Set(key, value)
    \/ Remove(<<97>>)
    \/ Close
    \/ Truncate
    \/ Corrupt

SpecRestoreAgain == Init /\ [][NextRestoreAgain]_vars

(***************************************************************************)
(* Calls that return an I/O error of the storage: a step of rotate, or a   *)
(* write, flush or sync of the writer.                                     *)
(***************************************************************************)
\* The steps of rotate that can fail.
RotateSteps == {"sync", "open_reader", "create_file"}

\* KVStore::set whose rotation fails at `step`: the `?` of set returns the
\* error before a record is built.  rotate has by then assigned what comes
\* before the step: nothing before sync and open_reader; the insert into
\* file_map and `active_file_id += 1` before create_file, while the writer,
\* replaced only after create_file, keeps the old file.  last.writer_file
\* is the file the writer appends to.  The model names the writer's file by
\* active_file_id, so the calls after a failed create_file are not followed.
SetRotateFails(step) ==
    /\ phase = "ready"
    /\ current_offset >= max_file_size
    /\ file_map' = IF step = "create_file" THEN file_map \cup {active_file_id}
                   ELSE file_map
    /\ active_file_id' = IF step = "create_file" THEN active_file_id + 1
                         ELSE active_file_id
    /\ phase' = IF step = "create_file" THEN "failed" ELSE "ready"
    /\ last' = [op |-> "rotate_failed", step |-> step, error |-> "Io",
                writer_file |-> active_file_id, before |-> files]
    /\ UNCHANGED << backend, write_mod, files, cuts, now, indexer, current_seq_no,
                    current_offset, cursor, restarts, kv, session, snap >>

\* The writes the file receives while encode_to runs, before the flush of
\* flush_to_os or sync.
EncodeChunks(e) ==
    BufWriteAllSeq([buf |-> <<>>, out |-> <<>>], EncodePieces(e), BufCapacity).out

\* The engine after a write_entry and flush whose n-th write to the file
\* failed (n one more than the number of writes: the sync after them
\* failed).  The file has received the writes before it; write_entry adds
\* bytes_written to current_offset only when encode_to returned, that is,
\* when the failing write is not one of encode_to's.
FailedAppend(en, e, n, chunks) ==
    [files |-> [en.files EXCEPT ![en.active_file_id] =
                   WriteAt(@, en.cursor, Concat(SubSeq(chunks, 1, n - 1)))],
     file_map |-> en.file_map,
     active_file_id |-> en.active_file_id,
     current_offset |-> IF n <= Len(EncodeChunks(e)) THEN en.current_offset
                        ELSE en.current_offset + EncodedLen(e),
     cursor |-> en.cursor + Len(Concat(SubSeq(chunks, 1, n - 1))),
     cuts |-> en.cuts]

\* KVStore::set whose record meets a failing write or sync: the error is
\* returned before indexer.put, the sequence number is spent.  A flush of
\* the BufWriter that fails leaves the bytes it did not write in the buffer
\* (last.buf); the piece write_all was adding is dropped.
SetFails(key, value, n) ==
    /\ phase = "ready"
    /\ ~SeqNoOverflows(current_seq_no)
    /\ \E en \in {RotateIfFull(Engine)} :
       \E e \in {NewEntry(key, value, next_seq_no, now)} :
       \E chunks \in {WriterChunks(e)} :
          /\ n <= Len(chunks) + (IF write_mod = "Sync" THEN 1 ELSE 0)
          /\ Install(FailedAppend(en, e, n, chunks))
          /\ last' = [op |-> "set_failed", key |-> key, error |-> "Io",
                      stage |-> IF n <= Len(EncodeChunks(e)) THEN "encode"
                                ELSE IF n <= Len(chunks) THEN "flush" ELSE "sync",
                      buf |-> IF n <= Len(chunks) THEN chunks[n] ELSE <<>>,
                      rec |-> encode_to(e),
                      indexer_before |-> indexer]
    /\ current_seq_no' = next_seq_no
    /\ phase' = "faulted"
    /\ UNCHANGED << backend, write_mod, now, indexer, restarts, kv, session, snap >>

\* The engine once the bytes a failed flush left in the BufWriter have gone
\* to the file, ahead of the next bytes written.
Drained(en, buf) ==
    [en EXCEPT !.files[en.active_file_id] = WriteAt(@, en.cursor, buf),
               !.cursor = @ + Len(buf)]

\* KVStore::set after a call that failed, the storage working again.  The
\* bytes left in the buffer reach the file first: with the sync of rotate
\* when the set rotates, in front of the record otherwise.
SetAfterFault(key, value) ==
    /\ phase = "faulted"
    /\ ~SeqNoOverflows(current_seq_no)
    /\ \E en \in {RotateIfFull(Drained(Engine, last.buf))} :
       \E e \in {NewEntry(key, value, next_seq_no, now)} :
       \E after \in {Appended(en, e)} :
          /\ Install(after)
          /\ indexer' = IndexPut(indexer, key,
                           LogIndex(en.active_file_id, en.current_offset, Len(value)))
          /\ Acknowledge(e, NoTtl)
          /\ last' = [WriteLast("set", e, en, after) EXCEPT !.op = "set_after_fault"]
    /\ current_seq_no' = next_seq_no
    /\ phase' = "ready"
    /\ UNCHANGED << backend, write_mod, now, restarts, snap >>

\* The number of writes to the file a record of the model takes at most;
\* one more is the sync.
MaxWrites == 2

NextFaults ==
    \/ Open
    \/ Restore
    \/ \E key \in KeysWithinLimits, value \in ValuesWithinLimits : Set(key, value)
    \/ \E key \in KeysWithinLimits : Remove(key)
    \/ \E step \in RotateSteps : SetRotateFails(step)
    \/ \E key \in KeysWithinLimits, value \in ValuesWithinLimits, n \in 1..(MaxWrites + 1) :
          SetFails(key, value, n)
    \/ \E key \in KeysWithinLimits, value \in ValuesWithinLimits : SetAfterFault(key, value)

SpecFaults == Init /\ [][NextFaults]_vars

(***************************************************************************)
(* config.rs: the ConfigWatcher, its reload thread, and the reads KVStore  *)
(* makes of it during a set.  kv is the configuration file (its            *)
(* modification time and the write_mod it names), session the state the    *)
(* handles share and the thread, last the call in progress.                *)
(***************************************************************************)
MaxEdits == 2
MaxHandles == 2

DEFAULT_MAX_FILE_SIZE == 1073741824
WriteMods == {"Sync", "Buffer"}

\* Config::load of a valid file: it starts from Config::default() and
\* assigns the keys it matches, which do not include max_file_size.
ConfigLoad(file) ==
    [max_file_size |-> DEFAULT_MAX_FILE_SIZE, write_mod |-> file.write_mod]

\* The configurations override_config is called with.
Overrides == [max_file_size : {max_file_size}, write_mod : WriteMods]

\* ConfigWatcher::new: the configuration loaded, the thread spawned with
\* the modification time it found, one handle returned.
InitConfig ==
    /\ backend = "mem" /\ write_mod = "Sync"
    /\ files = [i \in {} |-> <<>>]
    /\ cuts = {}
    /\ now = 0
    /\ phase = "config"
    /\ indexer = EmptyIndex
    /\ file_map = {}
    /\ active_file_id = 0
    /\ current_seq_no = 0
    /\ current_offset = 0
    /\ cursor = 0
    /\ restarts = 0
    /\ kv \in [mtime : {0}, write_mod : WriteMods]
    /\ session = [inner |-> ConfigLoad(kv), running |-> TRUE, handles |-> 1,
                  thread |-> "polling", last_mtime |-> 0]
    /\ snap = NoSnap
    /\ last = NoLast

\* The swap of the shared configuration, seen from a set that has read its
\* threshold and not yet its write mode: last.seen collects the
\* configurations in force since that read.
Swapped(config) ==
    IF last.op = "set_started" THEN [last EXCEPT !.seen = @ \cup {config}] ELSE last

\* The configuration file is rewritten with a valid configuration.
EditConfigFile(mode) ==
    /\ phase = "config"
    /\ kv.mtime < MaxEdits
    /\ kv' = [mtime |-> kv.mtime + 1, write_mod |-> mode]
    /\ UNCHANGED << backend, write_mod, files, cuts, now, phase, indexer, file_map,
                    active_file_id, current_seq_no, current_offset, cursor, restarts,
                    session, snap, last >>

\* The reload thread after a sleep, the running flag set and the
\* modification time changed: Config::load and the swap under the write
\* lock.
WatcherReloads ==
    /\ phase = "config"
    /\ session.thread = "polling"
    /\ session.running
    /\ session.last_mtime # kv.mtime
    /\ session' = [session EXCEPT !.inner = ConfigLoad(kv), !.last_mtime = kv.mtime]
    /\ last' = Swapped(ConfigLoad(kv))
    /\ UNCHANGED << backend, write_mod, files, cuts, now, phase, indexer, file_map,
                    active_file_id, current_seq_no, current_offset, cursor, restarts,
                    kv, snap >>

\* The reload thread after a sleep, the running flag cleared: it leaves its
\* loop.
WatcherExits ==
    /\ phase = "config"
    /\ session.thread = "polling"
    /\ ~session.running
    /\ session' = [session EXCEPT !.thread = "exited"]
    /\ UNCHANGED << backend, write_mod, files, cuts, now, phase, indexer, file_map,
                    active_file_id, current_seq_no, current_offset, cursor, restarts,
                    kv, snap, last >>

\* #[derive(Clone)] of ConfigWatcher: another handle on the same Arcs.
CloneHandle ==
    /\ phase = "config"
    /\ session.handles \in 1..(MaxHandles - 1)
    /\ session' = [session EXCEPT !.handles = @ + 1]
    /\ UNCHANGED << backend, write_mod, files, cuts, now, phase, indexer, file_map,
                    active_file_id, current_seq_no, current_offset, cursor, restarts,
                    kv, snap, last >>

\* Drop for ConfigWatcher: stop(), which clears the flag all handles share.
\* The handle of the engine is dropped last.
DropHandle ==
    /\ phase = "config"
    /\ session.handles > 0
    /\ session.handles = 1 => last.op # "set_started"
    /\ session' = [session EXCEPT !.handles = @ - 1, !.running = FALSE]
    /\ UNCHANGED << backend, write_mod, files, cuts, now, phase, indexer, file_map,
                    active_file_id, current_seq_no, current_offset, cursor, restarts,
                    kv, snap, last >>

\* ConfigWatcher::override_config
OverrideConfig(config) ==
    /\ phase = "config"
    /\ session.handles > 0
    /\ session.inner # config
    /\ session' = [session EXCEPT !.inner = config]
    /\ last' = Swapped(config)
    /\ UNCHANGED << backend, write_mod, files, cuts, now, phase, indexer, file_map,
                    active_file_id, current_seq_no, current_offset, cursor, restarts,
                    kv, snap >>

\* ConfigWatcher::get through a live handle.
ConfigGet ==
    /\ phase = "config"
    /\ session.handles > 0
    /\ last.op # "set_started"
    /\ last' = [op |-> "config_get", config |-> session.inner, mtime |-> kv.mtime]
    /\ UNCHANGED << backend, write_mod, files, cuts, now, phase, indexer, file_map,
                    active_file_id, current_seq_no, current_offset, cursor, restarts,
                    kv, session, snap >>

\* KVStore::set, its rotation check: self.config.max_file_size(), under a
\* read lock of its own.
SetReadsThreshold ==
    /\ phase = "config"
    /\ session.handles > 0
    /\ last.op # "set_started"
    /\ last' = [op |-> "set_started", max_file_size |-> session.inner.max_file_size,
                seen |-> {session.inner}]
    /\ UNCHANGED << backend, write_mod, files, cuts, now, phase, indexer, file_map,
                    active_file_id, current_seq_no, current_offset, cursor, restarts,
                    kv, session, snap >>

\* KVStore::set, after write_entry: self.config.write_mod(), under another
\* read lock.
SetReadsWriteMod ==
    /\ phase = "config"
    /\ last.op = "set_started"
    /\ last' = [op |-> "set_configured", max_file_size |-> last.max_file_size,
                write_mod |-> session.inner.write_mod, seen |-> last.seen]
    /\ UNCHANGED << backend, write_mod, files, cuts, now, phase, indexer, file_map,
                    active_file_id, current_seq_no, current_offset, cursor, restarts,
                    kv, session, snap >>

NextConfig ==
    \/ \E mode \in WriteMods : EditConfigFile(mode)
    \/ WatcherReloads
    \/ WatcherExits
    \/ CloneHandle
    \/ DropHandle
    \/ \E config \in Overrides : OverrideConfig(config)
    \/ ConfigGet
    \/ SetReadsThreshold
    \/ SetReadsWriteMod

SpecConfig == InitConfig /\ [][NextConfig]_vars

\* The reload thread is scheduled: each turn of its loop is taken after its
\* sleep of five seconds.
SpecConfigFair ==
    SpecConfig /\ WF_vars(WatcherReloads) /\ WF_vars(WatcherExits)

\* The runs in which the calls made at the largest sequence number are
\* steps too.
NextSeq ==
    \/ Open
    \/ Restore
    \/ \E key \in KeysWithinLimits, value \in ValuesWithinLimits : Set(key, value)
    \/ \E ttl \in TtlSpans : SetWithTtl(<<97>>, <<5>>, ttl)
    \/ \E key \in KeysWithinLimits : Remove(key)
    \/ \E key \in KeysWithinLimits, value \in ValuesWithinLimits : SetOverflow(key, value)
    \/ \E ttl \in TtlSpans : SetWithTtlOverflow(<<97>>, <<5>>, ttl)
    \/ \E key \in KeysWithinLimits : RemoveOverflow(key)
    \/ Close

SpecSeq == Init /\ [][NextSeq]_vars

(***************************************************************************)
(* index.rs on its own: HashIndexer, a hash table of (KeyRef, LogIndex)    *)
(* over an arena of key bytes, driven by put and remove next to a plain    *)
(* map (kv) that receives the same calls.  indexer holds the table, in     *)
(* insertion order, and the arena; session holds the hasher.               *)
(***************************************************************************)
IndexKeys == {<<>>, <<98>>, <<97, 98>>}
IndexValues == {LogIndex(1, 0, 0), LogIndex(2, 14, 1)}

\* RandomState::new(): some hash function of the key bytes; here one under
\* which all keys collide and one that tells the key lengths apart.
Hashers == {[key \in IndexKeys |-> 0], [key \in IndexKeys |-> Len(key) % 2]}

\* The width of KeyRef.offset and KeyRef.len (u32), scaled down with the
\* arena of the model.
ArenaModulus == 4

\* KeyArena::alloc: the offset is `self.data.len() as u32`.
KeyArenaAlloc(data, key) ==
    [offset |-> Len(data) % ArenaModulus, len |-> Len(key) % ArenaModulus]

\* KeyArena::get
KeyArenaGet(data, key_ref) ==
    Slice(data, key_ref.offset, key_ref.offset + key_ref.len)

\* HashTable::find with the closure of put, get and remove: the positions of
\* the entries stored under the hash whose arena bytes are the key.
TableFind(ix, hash, key) ==
    {i \in 1..Len(ix.table) :
        ix.table[i].hash = hash /\ KeyArenaGet(ix.arena, ix.table[i].key_ref) = key}

First(positions) == CHOOSE i \in positions : \A j \in positions : i <= j

\* HashIndexer::put
HashIndexerPut(ix, hasher, key, index) ==
    IF TableFind(ix, hasher[key], key) # {}
    THEN [ix EXCEPT !.table[First(TableFind(ix, hasher[key], key))].val = index]
    ELSE [table |-> Append(ix.table, [hash |-> hasher[key],
                                      key_ref |-> KeyArenaAlloc(ix.arena, key),
                                      val |-> index]),
          arena |-> ix.arena \o key]

\* HashIndexer::get
HashIndexerGet(ix, hasher, key) ==
    IF TableFind(ix, hasher[key], key) = {} THEN [res |-> "None"]
    ELSE [res |-> "Some", val |-> ix.table[First(TableFind(ix, hasher[key], key))].val]

\* The table without the entry at position i.
WithoutEntry(table, i) ==
    SubSeq(table, 1, i - 1) \o SubSeq(table, i + 1, Len(table))

\* HashIndexer::remove
HashIndexerRemove(ix, hasher, key) ==
    IF TableFind(ix, hasher[key], key) = {} THEN ix
    ELSE [ix EXCEPT !.table = WithoutEntry(@, First(TableFind(ix, hasher[key], key)))]

\* StandardHashMapIndexer::get
PlainGet(map, key) ==
    IF key \in DOMAIN map THEN [res |-> "Some", val |-> map[key]] ELSE [res |-> "None"]

InitIndex ==
    /\ backend = "mem" /\ write_mod = "Sync"
    /\ files = [i \in {} |-> <<>>]
    /\ cuts = {}
    /\ now = 0
    /\ phase = "index"
    /\ indexer = [table |-> <<>>, arena |-> <<>>]
    /\ file_map = {}
    /\ active_file_id = 0
    /\ current_seq_no = 0
    /\ current_offset = 0
    /\ cursor = 0
    /\ restarts = 0
    /\ kv = EmptyIndex
    /\ session \in [hasher : Hashers]
    /\ snap = NoSnap
    /\ last = NoLast

\* indexer.put(key, index), on both maps.
IndexerPut(key, index) ==
    /\ phase = "index"
    /\ Len(indexer.arena) + Len(key) <= MaxArena
    /\ indexer' = HashIndexerPut(indexer, session.hasher, key, index)
    /\ kv' = IndexPut(kv, key, index)
    /\ last' = [op |-> "index_put", key |-> key, index |-> index,
                held |-> key \in DOMAIN kv]
    /\ UNCHANGED << backend, write_mod, files, cuts, now, phase, file_map,
                    active_file_id, current_seq_no, current_offset, cursor,
                    restarts, session, snap >>

\* indexer.remove(key), on both maps.
IndexerRemove(key) ==
    /\ phase = "index"
    /\ indexer' = HashIndexerRemove(indexer, session.hasher, key)
    /\ kv' = IndexRemove(kv, key)
    /\ last' = [op |-> "index_remove", key |-> key, held |-> key \in DOMAIN kv]
    /\ UNCHANGED << backend, write_mod, files, cuts, now, phase, file_map,
                    active_file_id, current_seq_no, current_offset, cursor,
                    restarts, session, snap >>

NextIndex ==
    \/ \E key \in IndexKeys, index \in IndexValues : IndexerPut(key, index)
    \/ \E key \in IndexKeys : IndexerRemove(key)

SpecIndex == InitIndex /\ [][NextIndex]_vars

(***************************************************************************)
(* log_entry.rs on its own: a record encoded into a buffer, a bit of the   *)
(* buffer flipped, the buffer decoded (the tests of log_entry.rs).         *)
(***************************************************************************)
\* The numbers of the records encoded: varints of one and of two bytes.
CodecNumbers == {1, 128, 300}

\* The records encoded, by the three constructors.
CodecEntries ==
    {NewEntry(k, v, n, t) : k \in Keys, v \in Values, n \in CodecNumbers, t \in CodecNumbers}
    \cup UNION {{NewTtlEntry(k, v, n, t, x) : k \in Keys, v \in Values, n \in CodecNumbers,
                                             t \in {300}} : x \in CodecNumbers}
    \cup {new_tombstone(k, n, t) : k \in Keys, n \in CodecNumbers, t \in CodecNumbers}

\* byte ^ (1 << bit)
FlipBitOf(byte, bit) ==
    IF (byte \div Pow2(bit)) % 2 = 1 THEN byte - Pow2(bit) ELSE byte + Pow2(bit)

\* buf[pos] ^= 1 << bit (pos counted from 0)
FlipBit(bytes, pos, bit) ==
    [i \in 1..Len(bytes) |-> IF i = pos + 1 THEN FlipBitOf(bytes[i], bit) ELSE bytes[i]]

InitCodec ==
    /\ backend = "mem" /\ write_mod = "Sync"
    /\ files = [i \in {} |-> <<>>]
    /\ cuts = {}
    /\ now = 0
    /\ phase = "codec"
    /\ indexer = EmptyIndex
    /\ file_map = {}
    /\ active_file_id = 0
    /\ current_seq_no = 0
    /\ current_offset = 0
    /\ cursor = 0
    /\ restarts = 0
    /\ kv = [k \in {} |-> <<>>]
    /\ session = NoSession
    /\ snap = NoSnap
    /\ last = NoLast

\* entry.encode_to(&mut buf) on an empty buffer; the buffer is files[1].
EncodeRecord(e) ==
    /\ phase = "codec"
    /\ last.op = "none"
    /\ files' = [i \in {1} |-> encode_to(e)]
    /\ last' = [op |-> "encode", entry |-> e]
    /\ UNCHANGED << backend, write_mod, cuts, now, phase, indexer, file_map,
                    active_file_id, current_seq_no, current_offset, cursor,
                    restarts, kv, session, snap >>

\* One bit of the encoded record flipped.
FlipRecordBit ==
    /\ phase = "codec"
    /\ last.op = "encode"
    /\ \E pos \in 0..(Len(files[1]) - 1), bit \in 0..7 :
          /\ files' = [files EXCEPT ![1] = FlipBit(@, pos, bit)]
          /\ last' = [op |-> "flip", entry |-> last.entry, pos |-> pos, bit |-> bit]
    /\ UNCHANGED << backend, write_mod, cuts, now, phase, indexer, file_map,
                    active_file_id, current_seq_no, current_offset, cursor,
                    restarts, kv, session, snap >>

\* The limits of the decoders: those of the configuration, one that admits
\* no value byte and one that admits no key byte.
DecoderLimits == {<<max_key_size, max_val_size>>, <<2, 0>>, <<0, 1>>}

\* The buffer cut short, as in test_unexpected_eof: Cursor::new(&buf[..len]).
CutRecord ==
    /\ phase = "codec"
    /\ last.op = "encode"
    /\ \E len \in 0..(Len(files[1]) - 1) :
          /\ files' = [files EXCEPT ![1] = Slice(@, 0, len)]
          /\ last' = [op |-> "cut", entry |-> last.entry, len |-> len]
    /\ UNCHANGED << backend, write_mod, cuts, now, phase, indexer, file_map,
                    active_file_id, current_seq_no, current_offset, cursor,
                    restarts, kv, session, snap >>

\* decoder.decode_from(&mut cursor) on the buffer, with the limits of the
\* configuration; header is what decode_header_and_key returns on it.
\* Decoder::new(maxKey, maxVal) may have other limits, as in
\* test_entry_too_large; pos is where the reader stands when
\* decode_header_and_key returns.
DecodeRecord(maxKey, maxVal) ==
    /\ phase = "codec"
    /\ last.op \in {"encode", "flip", "cut"}
    /\ last' = [op |-> IF maxKey = max_key_size /\ maxVal = max_val_size
                       THEN "decode" ELSE "decode_limited",
                from |-> last, max_key |-> maxKey, max_val |-> maxVal,
                header |-> decode_header_and_key(files[1], 0, maxKey, maxVal).res,
                pos |-> decode_header_and_key(files[1], 0, maxKey, maxVal).pos,
                entry |-> decode_from(files[1], 0, maxKey, maxVal)]
    /\ UNCHANGED << backend, write_mod, files, cuts, now, phase, indexer, file_map,
                    active_file_id, current_seq_no, current_offset, cursor,
                    restarts, kv, session, snap >>

\* encode_varint(n, &mut buf) of an integer of the type; the buffer is
\* files[1].
EncodeVarint(type, n) ==
    /\ phase = "codec"
    /\ last.op = "none"
    /\ files' = [i \in {1} |-> encode_varint_bits(n)]
    /\ last' = [op |-> "varint_encode", type |-> type, n |-> n, extended |-> 0]
    /\ UNCHANGED << backend, write_mod, cuts, now, phase, indexer, file_map,
                    active_file_id, current_seq_no, current_offset, cursor,
                    restarts, kv, session, snap >>

\* The varint made one byte longer: the continuation bit set on its last
\* byte, a zero byte after it.
ExtendVarint ==
    /\ phase = "codec"
    /\ last.op = "varint_encode"
    /\ Len(files[1]) < MaxVarintLen
    /\ files' = [files EXCEPT ![1] =
                    [@ EXCEPT ![Len(@)] = @ + 128] \o << 0 >>]
    /\ last' = [last EXCEPT !.extended = @ + 1]
    /\ UNCHANGED << backend, write_mod, cuts, now, phase, indexer, file_map,
                    active_file_id, current_seq_no, current_offset, cursor,
                    restarts, kv, session, snap >>

\* decode_varint::<_, uN>(&mut cursor) on the buffer.
DecodeVarint(type) ==
    /\ phase = "codec"
    /\ last.op = "varint_encode"
    /\ last' = [op |-> "varint_decode", from |-> last, type |-> type,
                res |-> decode_varint_bits(files[1], 0, type.max_shift, 0,
                                           [i \in 1..type.bits |-> 0])]
    /\ UNCHANGED << backend, write_mod, files, cuts, now, phase, indexer, file_map,
                    active_file_id, current_seq_no, current_offset, cursor,
                    restarts, kv, session, snap >>

NextCodec ==
    \/ \E e \in CodecEntries : EncodeRecord(e)
    \/ FlipRecordBit
    \/ CutRecord
    \/ \E limits \in DecoderLimits : DecodeRecord(limits[1], limits[2])
    \/ \E type \in {U32, U64} : \E n \in VarintNumbers(type) : EncodeVarint(type, n)
    \/ ExtendVarint
    \/ \E type \in {U32, U64} : DecodeVarint(type)

SpecCodec == InitCodec /\ [][NextCodec]_vars

\* The runs of the engine with keys over the limit next to the runs of the
\* decoder on its own.
NextSizes ==
    \/ Open
    \/ Restore
    \/ \E key \in Keys, value \in Values : Set(key, value)
    \/ Close
    \/ Truncate
    \/ \E e \in CodecEntries : EncodeRecord(e)
    \/ CutRecord
    \/ \E limits \in DecoderLimits : DecodeRecord(limits[1], limits[2])

SpecSizes == (Init \/ InitCodec) /\ [][NextSizes]_vars

(***************************************************************************)
(* Properties.                                                             *)
(***************************************************************************)
\* What the acknowledged writes make of a key: the value of its last set,
\* or None when it was never set or its last write was a remove.
Acked(key) ==
    IF key \in DOMAIN kv THEN [res |-> "Some", value |-> kv[key]] ELSE NoResult

\* The environment lost nothing so far: no crash, no truncation.
NothingLost == snap.how \in {"none", "close"}

\* C1: on an opened store, after any sequence of set and remove, get(k)
\* returns the value of the last set of k, and None for a key never set or
\* whose last operation was remove.
C1_GetReturnsLastSet ==
    (phase = "ready" /\ NothingLost) => \A k \in Keys : Result(k) = Acked(k)

\* The index entry of a key points at a record that decodes cleanly to that
\* key and to the value length of the entry.
PointsAtRecord(key, entry) ==
    /\ entry.res = "Ok"
    /\ entry.key = key
    /\ Len(entry.value) = indexer[key].val_len

\* C2: in every reachable state, writes after a restore that truncated the
\* active file included, the bytes at (file_id, offset) of every index
\* entry decode cleanly to a record of that key and that value length.
C2_IndexPointsAtRecords ==
    \A k \in DOMAIN indexer :
        PointsAtRecord(k, decode_from(files[indexer[k].file_id], indexer[k].offset,
                                      max_key_size, max_val_size))

\* C3: after a prefix truncation of the active file at any byte length,
\* open and restore yield an engine in which exactly the keys whose records
\* survive the truncation are readable, with their values.
C3_RecoveryClosure ==
    (last.op = "restore" /\ snap.how = "truncate") =>
        \A k \in Keys : Result(k) = snap.expect[k]

\* C4: after set and remove over possibly several rotated files, with no
\* corruption, close followed by open and restore makes get return for
\* every key what it returned before the close.
C4_RestartEquivalence ==
    (last.op = "restore" /\ snap.how = "close") =>
        \A k \in Keys : Result(k) = snap.expect[k]

\* C5: in Sync mode, after a crash followed by open and restore, every key
\* whose last acknowledged write was a set is readable with that value.
C5_SyncWritesSurviveCrash ==
    (write_mod = "Sync" /\ last.op = "restore" /\ snap.how = "crash") =>
        \A k \in DOMAIN kv : Result(k) = Acked(k)

\* C6: in Buffer mode a crash may lose a suffix of whole records but never
\* leaves a record partially written.
C6_NoTornRecordInBufferMode ==
    (write_mod = "Buffer" /\ last.op = "crash") => ~last.torn

\* The scan of restore finds nothing to truncate in the file.
ScansClean(bytes) ==
    ScanFile(bytes, 0, 0, "none",
             [indexer |-> EmptyIndex, seq_no |-> 0, trunc |-> -1,
              met |-> "Ok", err |-> "Ok"]).trunc = -1

\* C7: a file restore truncates at offset o has exactly o bytes and no
\* index entry at or after o, the active file has current_offset o, and
\* after restore no file has trailing bytes that are not whole records.
C7_RestoreTruncates ==
    last.op = "restore" =>
        /\ \A t \in last.truncated :
              /\ Len(files[t[1]]) = t[2]
              /\ \A k \in DOMAIN indexer :
                    indexer[k].file_id = t[1] => indexer[k].offset < t[2]
              /\ t[1] = active_file_id => current_offset = t[2]
        /\ \A f \in DOMAIN files : ScansClean(files[f])

\* C8: in one session the sequence numbers of the appended records are
\* strictly increasing, and the first record of a fresh store has
\* sequence number 1.
C8_SeqNosIncrease ==
    /\ \A i \in 1..(Len(session.seqs) - 1) : session.seqs[i] < session.seqs[i + 1]
    /\ (session.fresh /\ session.seqs # <<>>) => session.seqs[1] = 1

\* C8, its case: a fresh store has appended two records.
C8_TwoRecordsAppended ==
    session.fresh /\ Len(session.seqs) >= 2 /\ last.op \in WriteOps

\* The sequence numbers of the whole records of the directory, the record
\* at (file_id, pos) left out.
RECURSIVE SeqNosOf(_, _, _)
SeqNosOf(records, f, skip) ==
    IF records = <<>> THEN {}
    ELSE (IF skip = <<f, Head(records).offset>> THEN {}
          ELSE {Head(records).entry.sequence_number})
         \cup SeqNosOf(Tail(records), f, skip)

OtherSeqNos(skip) ==
    UNION {SeqNosOf(WholeRecords(files[f], 0), f, skip) : f \in DOMAIN files}

\* C9: after open and restore the sequence counter is the maximum sequence
\* number of the records scanned, and every record appended afterwards has
\* a sequence number greater than that of every record on disk.
C9_AppendsAboveRecoveredSeqNos ==
    /\ last.op = "restore" =>
          \A f \in last.scanned : \A n \in SeqNosOf(WholeRecords(files[f], 0), f, <<0, 0>>) :
              n <= current_seq_no
    /\ last.op \in WriteOps =>
          \A n \in OtherSeqNos(<<last.file_id, last.pos>>) : n < last.seq

C11_EveryWriteChecksRotation ==
    (last.op \in WriteOps /\ last.offset_before >= max_file_size) =>
        (last.rotated /\ last.offset = 0)

\* C20: every record the engine appends has a key of at most max_key_size
\* bytes and a value of at most max_val_size bytes, so that get does not
\* classify a record the engine wrote as oversize.
C20_AppendsWithinLimits ==
    last.op \in WriteOps =>
        /\ Len(last.key) <= max_key_size
        /\ decode_from(last.rec, 0, max_key_size, max_val_size).res # "InvalidData"

\* C12: a rotation registers the old file in the archive map under its old
\* id, increments active_file_id by exactly one, creates the new file and
\* installs a fresh writer at offset 0, the old file being synced (a crash
\* can only cut the new file); every key readable before the rotation is
\* readable with the same value afterwards.
C12_RotationKeepsKeysReadable ==
    (last.op \in WriteOps /\ last.rotated) =>
        /\ active_file_id = last.active_before + 1
        /\ file_map = last.file_map_before \cup {last.active_before}
        /\ last.file_id = active_file_id
        /\ last.offset = 0 /\ last.pos = 0
        /\ current_offset = Len(last.rec)
        /\ files[active_file_id] = last.rec
        /\ \A c \in cuts : c.len <= Len(files[active_file_id])
        /\ \A k \in Keys \ {last.key} : Result(k) = last.before[k]

\* C12, its case: a write rotated while another key was readable in the
\* file that became an archive.
C12_RotatedWithReadableArchive ==
    /\ last.op \in WriteOps /\ last.rotated
    /\ \E k \in Keys \ {last.key} :
          /\ last.before[k].res = "Some"
          /\ k \in DOMAIN indexer /\ indexer[k].file_id = last.active_before

\* C13: after set_with_ttl(k, v, d) issued at time t, and while no other
\* write to k happens, get(k) returns Some(v) at every time now <= t + d and
\* None at every time now > t + d.
C13_TtlExpiry ==
    phase = "ready" =>
        \A k \in DOMAIN session.ttls :
            Result(k) = IF now <= session.ttls[k].at + session.ttls[k].ttl
                        THEN [res |-> "Some", value |-> session.ttls[k].value]
                        ELSE NoResult

\* C15: get never changes engine state: the index, the sequence counter, the
\* writer offset, the file contents and the file cursors are the same after
\* any get as before; a get that finds an expired TTL record returns None
\* and leaves the index entry in place.
C15_GetChangesNothing ==
    [][last'.op = "get" =>
          /\ UNCHANGED << indexer, current_seq_no, current_offset, files, cursor >>
          /\ last'.expired => (last'.res = NoResult /\ last'.key \in DOMAIN indexer')]_vars

\* C14: remove(k) for a key that is not in the index is a no-op: it appends
\* no record, assigns no sequence number, triggers no rotation and leaves the
\* index, the writer offset and all files unchanged.
C14_RemoveAbsentIsNoOp ==
    [][(/\ last'.op \in {"remove", "remove_absent"}
        /\ last' # last
        /\ last'.key \notin DOMAIN indexer)
       => UNCHANGED << files, indexer, current_seq_no, current_offset, cursor,
                       active_file_id, file_map >>]_vars

\* C14, its case: a remove of a key the index does not hold has returned,
\* with records of other keys in the files.
C14_RemovedAbsentKey ==
    /\ last.op = "remove_absent"
    /\ indexer # EmptyIndex

\* C16: on open, with the numeric file ids sorted ascending: if no file
\* exists the active file is id 1 at offset 0; if the highest-numbered file
\* is shorter than max_file_size it is reused as the active file, the
\* writer's starting offset is its length and all lower ids become
\* archives; otherwise id highest + 1 is created as an empty active file and
\* all existing ids become archives.  last.dir is the directory as open
\* found it (file id -> length).
C16_OpenChoosesActiveFile ==
    last.op = "open" =>
        IF DOMAIN last.dir = {}
        THEN active_file_id = 1 /\ current_offset = 0
        ELSE IF last.dir[SetMax(DOMAIN last.dir)] < max_file_size
        THEN /\ active_file_id = SetMax(DOMAIN last.dir)
             /\ current_offset = last.dir[active_file_id]
             /\ file_map = DOMAIN last.dir \ {active_file_id}
        ELSE /\ active_file_id = SetMax(DOMAIN last.dir) + 1
             /\ files[active_file_id] = <<>>
             /\ current_offset = 0
             /\ file_map = DOMAIN last.dir

\* C17: restore recovers from every corruption-class error (CRC mismatch,
\* varint decode error, unexpected EOF, invalid data) by truncating the file
\* at the offset of the record and goes on to return Ok; an error of any
\* other kind it returns, and it truncates nothing for it.  last.met holds
\* the errors the decoder returned as <<file id, error, offset of the
\* truncation or -1>>, last.before the files as restore found them.
C17_RestoreRecoversFromCorruption ==
    /\ last.op \in {"restore", "restore_failed"} =>
          \A m \in last.met :
              m[2] \in {"CrcMismatch", "VarintDecodeError", "UnexpectedEof", "InvalidData"}
                  => (m[3] # -1 /\ Len(files[m[1]]) = m[3] /\ <<m[1], m[3]>> \in last.truncated)
    /\ last.op = "restore" =>
          \A m \in last.met :
              m[2] \in {"CrcMismatch", "VarintDecodeError", "UnexpectedEof", "InvalidData"}
    /\ last.op = "restore_failed" =>
          /\ last.error \notin {"Ok", "CrcMismatch", "VarintDecodeError",
                                "UnexpectedEof", "InvalidData"}
          /\ files[last.file_id] = last.before[last.file_id]
          /\ \A t \in last.truncated : t[1] # last.file_id
          /\ phase = "failed"

\* C17, its case: restore truncated one file for a CRC mismatch and then
\* returned the I/O error of another, non-empty, file.
C17_TruncatedThenFailed ==
    /\ last.op = "restore_failed"
    /\ \E m \in last.met : m[2] = "CrcMismatch" /\ <<m[1], m[3]>> \in last.truncated
    /\ files[last.file_id] # <<>>

\* The header bytes of the record e: the header CRC, the metadata, the key.
HeaderLen(e) == 4 + Len(HeaderFields(e)) + Len(e.key)

\* C18: flipping any bit of a record's header bytes (header CRC, entry
\* type, timestamps, sequence number, length fields, key) makes the decoder
\* of get and restore report a header CRC mismatch; flipping any bit of its
\* value bytes makes the decoder of get report a body CRC mismatch.
C18_BitFlipsGiveCrcMismatch ==
    (last.op = "decode" /\ last.from.op = "flip"
        /\ Len(last.from.entry.key) <= max_key_size
        /\ Len(last.from.entry.value) <= max_val_size) =>
        /\ last.from.pos < HeaderLen(last.from.entry) => last.header = "CrcMismatch"
        /\ last.from.pos >= HeaderLen(last.from.entry) + 4 =>
              (last.header = "Ok" /\ last.entry.res = "CrcMismatch")

\* C19: round trip: a record (normal, TTL-bearing or tombstone) whose key
\* and value are within max_key_size and max_val_size, encoded and then
\* decoded by decode_from, comes back equal in entry type, created_at,
\* sequence number, expire_at, key and value.
C19_RoundTrip ==
    (last.op = "decode" /\ last.from.op = "encode"
        /\ Len(last.from.entry.key) <= max_key_size
        /\ Len(last.from.entry.value) <= max_val_size) =>
        /\ last.entry.res = "Ok"
        /\ last.entry.entry_type = last.from.entry.entry_type
        /\ last.entry.created_at = last.from.entry.created_at
        /\ last.entry.sequence_number = last.from.entry.sequence_number
        /\ last.entry.expire_at = last.from.entry.expire_at
        /\ last.entry.key = last.from.entry.key
        /\ last.entry.value = last.from.entry.value

\* C19, its case: a TTL-bearing record with a value, whose numbers take two
\* bytes as varints, has been encoded and decoded.
C19_DecodedTtlRecord ==
    /\ last.op = "decode" /\ last.from.op = "encode"
    /\ has_ttl(last.from.entry.entry_type)
    /\ last.from.entry.expire_at = 300 /\ last.from.entry.sequence_number = 128
    /\ last.from.entry.value = <<5>> /\ Len(last.from.entry.key) <= max_key_size
    /\ last.entry.res = "Ok"

\* C30: at every append the position at which the handle of the active file
\* writes equals writer.current_offset, the first write after restore
\* truncated the active file with set_len(o) and set_offset(o) included:
\* that record lands at byte o.
C30_HandleWritesAtWriterOffset ==
    last.op \in WriteOps =>
        /\ last.pos = last.offset
        /\ Len(files[last.file_id]) >= last.offset + Len(last.rec)
        /\ Slice(files[last.file_id], last.offset, last.offset + Len(last.rec)) = last.rec

\* C29: write_entry returns the value current_offset had before the call
\* (0 after a rotation) and advances current_offset by exactly the number of
\* bytes of the encoding, so that consecutive records occupy adjacent byte
\* ranges of the file that start at the returned offsets: the index entry of
\* the key holds the returned offset, and the bytes of the active file from
\* there on are the record, up to the new current_offset.
C29_WriteEntryReturnsOffset ==
    last.op \in WriteOps =>
        /\ last.offset = (IF last.rotated THEN 0 ELSE last.offset_before)
        /\ current_offset = last.offset + Len(last.rec)
        /\ last.op # "remove" =>
              (last.key \in DOMAIN indexer /\ indexer[last.key].offset = last.offset)
        /\ Len(files[active_file_id]) = current_offset
        /\ Slice(files[active_file_id], last.offset, current_offset) = last.rec

\* The bytes [offset, n) of a file are whole records that decode cleanly
\* under the limits of the configuration.
RECURSIVE ValidRecords(_, _, _)
ValidRecordsAfter(bytes, offset, n, e) ==
    /\ e.res = "Ok"
    /\ ValidRecords(bytes, offset + EncodedLen(e), n)

ValidRecords(bytes, offset, n) ==
    IF offset >= n THEN offset = n
    ELSE ValidRecordsAfter(bytes, offset, n,
             decode_from(Slice(bytes, 0, n), offset, max_key_size, max_val_size))

\* C25: after every successful set, set_with_ttl, remove, rotation and
\* restore, writer.current_offset equals the length of the active file and
\* the bytes [0, current_offset) of the active file are a concatenation of
\* whole valid records.
C25_OffsetIsValidLength ==
    last.op \in WriteOps \cup {"restore"} =>
        /\ current_offset = Len(files[active_file_id])
        /\ ValidRecords(files[active_file_id], 0, current_offset)

\* C26: a step of set, set_with_ttl, remove or get (the store is ready
\* before and after it) leaves every file that was rotated out (a file with
\* a successor in the directory) byte for byte as it was, and every file the
\* step creates or changes is the file of the active_file_id it ends with.
C26_ArchivesImmutable ==
    [][(phase = "ready" /\ phase' = "ready") =>
          /\ \A f \in DOMAIN files :
                f + 1 \in DOMAIN files => (f \in DOMAIN files' /\ files'[f] = files[f])
          /\ \A f \in DOMAIN files' :
                (f \notin DOMAIN files \/ files'[f] # files[f]) => f = active_file_id']_vars

\* C24: with the sequence counter at its largest value, a step of set,
\* set_with_ttl or remove fails with the overflow error (remove of a key
\* the index does not hold does nothing), leaves the index and the counter
\* as they were, and adds no byte to any file: every file is as it was, or
\* is an empty one.
C24_OverflowAppendsNothing ==
    [][(phase = "ready" /\ phase' = "ready" /\ current_seq_no = MaxSeqNo) =>
          /\ last'.op \in {"set_overflow", "set_with_ttl_overflow",
                           "remove_overflow", "remove_absent"}
          /\ last'.op # "remove_absent" => last'.error = "Io"
          /\ last'.op = "remove_absent" => last'.key \notin DOMAIN indexer
          /\ indexer' = indexer
          /\ current_seq_no' = current_seq_no
          /\ \A f \in DOMAIN files' :
                files'[f] = <<>> \/ (f \in DOMAIN files /\ files'[f] = files[f])]_vars

\* C24: a remove of an indexed key has failed at the largest sequence
\* number.
C24_RemoveFailedAtCeiling ==
    /\ last.op = "remove_overflow"
    /\ current_seq_no = MaxSeqNo
    /\ last.key \in DOMAIN indexer

\* C27: after any sequence of put and remove calls, get of every key
\* (the empty key included) answers what a plain map that received the
\* same calls answers: the entry of the last put not followed by a remove,
\* None otherwise.
C27_IndexIsPlainMap ==
    phase = "index" =>
        \A key \in IndexKeys :
            HashIndexerGet(indexer, session.hasher, key) = PlainGet(kv, key)

\* C28: an integer of 32 (64) bits is encoded in at most 5 (10) bytes and
\* decoded as the same type to itself, the decoder ending after the last
\* byte; a buffer of more than 5 (10) bytes that all but the last carry the
\* continuation bit is a varint-decode error for the decoder of 32 (64)
\* bits, and one of at most that many bytes is not.
C28_VarintRoundTripAndCeiling ==
    last.op = "varint_decode" =>
        /\ (last.from.extended = 0 /\ last.type = last.from.type) =>
              /\ last.res.err = "Ok"
              /\ last.res.val = last.from.n
              /\ last.res.pos = Len(files[1])
              /\ Len(files[1]) <= (IF last.type.bits = 32 THEN 5 ELSE 10)
        /\ (last.res.err = "VarintDecodeError") <=>
              (Len(files[1]) > (IF last.type.bits = 32 THEN 5 ELSE 10))
        /\ last.res.err # "UnexpectedEof"

\* C28: the largest integer of 64 bits came back from its ten bytes.
C28_LargestU64RoundTrip ==
    /\ last.op = "varint_decode"
    /\ last.type = U64
    /\ last.from.type = U64
    /\ last.from.extended = 0
    /\ \A i \in 1..64 : last.from.n[i] = 1
    /\ Len(files[1]) = 10
    /\ last.res.err = "Ok"
    /\ last.res.val = last.from.n

\* The bytes of the record e up to the end of its length fields: the header
\* CRC, the type, created_at, the sequence number, key_len and value_len.
LengthsEnd(e) ==
    5 + Len(encode_varint(e.created_at)) + Len(encode_varint(e.sequence_number))
      + Len(encode_varint(Len(e.key))) + Len(encode_varint(Len(e.value)))

WithinLimits(e) == Len(e.key) <= max_key_size /\ Len(e.value) <= max_val_size

\* C21: decode_from and decode_header_and_key return None exactly on the
\* empty stream; on a stream that ends after the first byte of a record and
\* before its end decode_from returns the unexpected-EOF error, and so does
\* decode_header_and_key when the stream ends before the end of the key.
C21_NoneOnlyAtRecordStart ==
    (last.op = "decode" /\ last.from.op \in {"encode", "cut"}) =>
        /\ (last.entry.res = "None") <=> (files[1] = <<>>)
        /\ (last.header = "None") <=> (files[1] = <<>>)
        /\ (last.from.op = "cut" /\ last.from.len > 0) =>
              /\ last.entry.res = "UnexpectedEof"
              /\ last.from.len < HeaderLen(last.from.entry) =>
                    last.header = "UnexpectedEof"

\* C21, amended: as above for the records whose key and value lengths are
\* within the limits of the decoder; for a record over the limits the
\* stream that holds all its length fields yields the invalid-data error,
\* a shorter one the unexpected-EOF error.
C21_NoneOnlyAtRecordStartWithinLimits ==
    (last.op = "decode" /\ last.from.op \in {"encode", "cut"}) =>
        /\ (last.entry.res = "None") <=> (files[1] = <<>>)
        /\ (last.header = "None") <=> (files[1] = <<>>)
        /\ (last.from.op = "cut" /\ last.from.len > 0) =>
              IF WithinLimits(last.from.entry) \/ last.from.len < LengthsEnd(last.from.entry)
              THEN /\ last.entry.res = "UnexpectedEof"
                   /\ last.from.len < HeaderLen(last.from.entry) =>
                         last.header = "UnexpectedEof"
              ELSE /\ last.entry.res = "InvalidData"
                   /\ last.header = "InvalidData"

\* C21: a record within the limits lost its last value byte, and its
\* header was decoded while decode_from met the end of the stream.
C21_EofInsideValue ==
    /\ last.op = "decode"
    /\ last.from.op = "cut"
    /\ WithinLimits(last.from.entry)
    /\ last.from.entry.value # <<>>
    /\ last.from.len = EncodedLen(last.from.entry) - 1
    /\ last.header = "Ok"
    /\ last.entry.res = "UnexpectedEof"

\* The bytes at offset of the file begin with all the length fields of a
\* record of set whose key or value is over the limits.
OversizeRecordAt(bytes, offset, maxKey, maxVal) ==
    \E k \in Keys, v \in Values, n \in 1..(MaxSeqNo + 1), t \in 0..MaxNow :
    \E e \in {NewEntry(k, v, n, t)} :
        /\ Len(e.key) > maxKey \/ Len(e.value) > maxVal
        /\ offset + LengthsEnd(e) <= Len(bytes)
        /\ Slice(bytes, offset, offset + LengthsEnd(e)) = Slice(encode_to(e), 0, LengthsEnd(e))

\* C22: a record whose key_len or value_len is over the limit of the
\* decoder is answered with the invalid-data error as soon as the stream
\* holds its length fields, the reader standing right after them (no byte
\* of the key or the value is read, none needs to be there); restore
\* truncates a file at the start of the first such record that follows
\* whole valid records, and indexes nothing at or after it.
C22_OversizeIsInvalidData ==
    /\ (/\ last.op \in {"decode", "decode_limited"}
        /\ last.from.op \in {"encode", "cut"}
        /\ \/ Len(last.from.entry.key) > last.max_key
           \/ Len(last.from.entry.value) > last.max_val
        /\ Len(files[1]) >= LengthsEnd(last.from.entry)) =>
           /\ last.header = "InvalidData"
           /\ last.entry.res = "InvalidData"
           /\ last.pos = LengthsEnd(last.from.entry)
    /\ last.op = "restore" =>
           \A f \in last.scanned : \A o \in 0..Len(last.before[f]) :
               (/\ ValidRecords(last.before[f], 0, o)
                /\ OversizeRecordAt(last.before[f], o, max_key_size, max_val_size)) =>
                    /\ <<f, o>> \in last.truncated
                    /\ Len(files[f]) = o
                    /\ \A k \in DOMAIN indexer :
                          indexer[k].file_id = f => indexer[k].offset < o

\* C22: restore has truncated a file at the start of a record with a key
\* over the limit, behind a record it kept.
C22_TruncatedAtOversizeRecord ==
    /\ last.op = "restore"
    /\ \E t \in last.truncated :
          /\ t[2] > 0
          /\ OversizeRecordAt(last.before[t[1]], t[2], max_key_size, max_val_size)
          /\ Len(files[t[1]]) = t[2]

\* The bytes from `from` up to `to` are records whose headers decode and
\* whose bodies lie within the file: the records restore steps over.
RECURSIVE HeaderChain(_, _, _)
HeaderChainAfter(bytes, header, to) ==
    /\ header.res = "Ok"
    /\ header.pos + 4 + header.val_len <= Len(bytes)
    /\ HeaderChain(bytes, header.pos + 4 + header.val_len, to)
HeaderChain(bytes, from, to) ==
    IF from >= to THEN from = to
    ELSE HeaderChainAfter(bytes, decode_header_and_key(bytes, from, max_key_size,
                                                       max_val_size), to)

\* The record at offset has an intact header and a body that lies within
\* the file and fails its CRC.
BodyCorruptAt(bytes, offset) ==
    /\ offset < Len(bytes)
    /\ HeaderChain(bytes, offset, ReadEnd(bytes,
            decode_header_and_key(bytes, offset, max_key_size, max_val_size)))
    /\ decode_from(bytes, offset, max_key_size, max_val_size).res = "CrcMismatch"

\* C23: restore steps over a record whose header is intact and whose body,
\* within the file, fails its CRC: the file keeps the record (it is not
\* truncated at or before its end), the key is in the index, at this record
\* or a later one; and get of a key whose index entry is such a record
\* returns the CRC mismatch.
C23_RestoreSkipsBodyCrc ==
    /\ last.op = "restore" =>
          \A f \in last.scanned : \A o \in 0..Len(last.before[f]) :
              (HeaderChain(last.before[f], 0, o) /\ BodyCorruptAt(last.before[f], o)) =>
                  /\ Len(files[f]) >= ReadEnd(last.before[f],
                         decode_header_and_key(last.before[f], o, max_key_size,
                                               max_val_size))
                  /\ \E k \in DOMAIN indexer :
                        /\ k = decode_header_and_key(last.before[f], o, max_key_size,
                                                     max_val_size).key
                        /\ \/ indexer[k].file_id > f
                           \/ indexer[k].file_id = f /\ indexer[k].offset >= o
                        /\ (indexer[k].file_id = f /\ indexer[k].offset = o) =>
                              Result(k).res = "CrcMismatch"
    /\ (/\ last.op = "get"
        /\ last.key \in DOMAIN indexer
        /\ indexer[last.key].file_id \in DOMAIN files
        /\ BodyCorruptAt(files[indexer[last.key].file_id], indexer[last.key].offset)) =>
           last.res.res = "CrcMismatch"

\* C23: after a restore that truncated nothing, get has returned the CRC
\* mismatch of a record whose value was overwritten while the store was
\* down.
C23_GetMetCorruptValue ==
    /\ last.op = "get"
    /\ snap.how = "corrupt"
    /\ last.res.res = "CrcMismatch"
    /\ last.key \in DOMAIN indexer
    /\ BodyCorruptAt(files[indexer[last.key].file_id], indexer[last.key].offset)
    /\ indexer[last.key].val_len > 0
    /\ files[indexer[last.key].file_id][
           ReadEnd(files[indexer[last.key].file_id],
                   decode_header_and_key(files[indexer[last.key].file_id],
                       indexer[last.key].offset, max_key_size, max_val_size))] = 255

\* C31: open enumerates every data file the injected file system lists, on
\* the in-memory backend as on the OS backend: every id below the highest
\* id of the directory open found is in file_map, and after a clean close,
\* open and restore every key reads as it did before the close.
C31_ReopenEnumeratesEveryFile ==
    /\ (last.op = "open" /\ DOMAIN last.dir # {}) =>
          \A id \in DOMAIN last.dir :
             id < SetMax(DOMAIN last.dir) => id \in file_map
    /\ (last.op = "restore" /\ snap.how = "close" /\ Cardinality(DOMAIN files) > 1) =>
          \A k \in Keys : Result(k) = snap.expect[k]

\* C32: file ids only grow.  While the store is open, active_file_id is
\* greater than every id of file_map and than every other data file of the
\* directory; a rotation sets active_file_id to exactly the old id plus one,
\* and that id names no file of the directory before the rotation, so
\* create_file truncates nothing.
C32_FileIdsOnlyGrow ==
    /\ [](phase \in {"opened", "ready"} =>
            \A id \in (file_map \cup DOMAIN files) \ {active_file_id} :
               id < active_file_id)
    /\ [][(phase = "ready" /\ phase' = "ready" /\ active_file_id' # active_file_id) =>
            /\ active_file_id' = active_file_id + 1
            /\ active_file_id' \notin DOMAIN files]_vars

\* C33: while the store is open, every index entry's file_id is
\* active_file_id or an id of file_map, so get finds a handle for it.
C33_IndexNamesOpenFiles ==
    phase \in {"opened", "ready"} =>
        \A k \in DOMAIN indexer :
           /\ indexer[k].file_id = active_file_id \/ indexer[k].file_id \in file_map
           /\ ReadHandle(indexer[k].file_id) # "panic"

\* C33: a key is indexed in an archived file after a rotation, and another
\* after a restore that scanned an archive.
C33_IndexedInArchive ==
    /\ phase = "ready"
    /\ \E k \in DOMAIN indexer :
          indexer[k].file_id \in file_map /\ indexer[k].file_id # active_file_id
    /\ last.op \in {"set", "restore"}

\* C40: after any sequence of put and remove, every key reference of the
\* table lies inside the arena (offset + len <= arena length), the keys the
\* references name are exactly the keys a plain map holds after the same
\* calls, one reference each, and the key just put is named by a reference
\* carrying the index put.
C40_KeyRefsNameTheirKeys ==
    phase = "index" =>
        /\ \A i \in 1..Len(indexer.table) :
              indexer.table[i].key_ref.offset + indexer.table[i].key_ref.len
                 <= Len(indexer.arena)
        /\ Len(indexer.table) = Cardinality(DOMAIN kv)
        /\ {KeyArenaGet(indexer.arena, indexer.table[i].key_ref) :
               i \in 1..Len(indexer.table)} = DOMAIN kv
        /\ last.op = "index_put" =>
              \E i \in 1..Len(indexer.table) :
                 /\ KeyArenaGet(indexer.arena, indexer.table[i].key_ref) = last.key
                 /\ indexer.table[i].val = last.index

\* C37: the record set_with_ttl wrote carries expire_at = now + ttl, the
\* sum without wrap-around or truncation (so a longer ttl never gives an
\* earlier expire_at), and the record is not expired at the time it was
\* written.  last.rec is the record, session.ttls the time and the duration
\* of the call.
C37_ExpireAtIsTheSum ==
    last.op = "set_with_ttl" =>
        /\ decode_from(last.rec, 0, max_key_size, max_val_size).expire_at
              = session.ttls[last.key].at + session.ttls[last.key].ttl
        /\ ~ExpiredEntry(decode_from(last.rec, 0, max_key_size, max_val_size),
                         session.ttls[last.key].at)

\* C36: restore is idempotent.  A restore that follows a restore, with no
\* call in between, leaves the index, the sequence counter, the writer
\* offset and every file as the first one left them, and truncates nothing.
C36_RestoreIsIdempotent ==
    [][(/\ last.op \in {"restore", "restore_again"}
        /\ last'.op = "restore_again"
        /\ last' # last)
       => /\ UNCHANGED << indexer, current_seq_no, current_offset, files >>
          /\ last'.truncated = {}]_vars

\* C36: a second restore has run after a restore that truncated a file and
\* indexed a key, and a third after a restore of a store that had written
\* since it was opened.
C36_RestoredTwice ==
    /\ last.op = "restore_again"
    /\ last.prev.op \in {"restore", "restore_again"}
    /\ last.prev.truncated # {}
    /\ indexer # EmptyIndex
    /\ current_seq_no > 0

\* C34: when a step of a rotation fails (the sync of the old file, its
\* reopening read-only, or the creation of the new file), the set that
\* triggered it appends no record, active_file_id still names the file the
\* writer appends to, and that file is not in file_map.
C34_FailedRotationChangesNothing ==
    last.op = "rotate_failed" =>
        /\ files = last.before
        /\ active_file_id = last.writer_file
        /\ last.writer_file \notin file_map

\* C35: a set that fails while its record is encoded, flushed or synced
\* leaves the index as it was, and the offset the next successful set
\* stores is where the bytes of its own record are, the writer offset
\* being the length of what the file has received.
C35_FailedWriteKeepsOffsets ==
    /\ last.op = "set_failed" => indexer = last.indexer_before
    /\ last.op = "set_after_fault" =>
          /\ last.key \in DOMAIN indexer
          /\ indexer[last.key].file_id = active_file_id
          /\ Slice(files[active_file_id], indexer[last.key].offset,
                   indexer[last.key].offset + Len(last.rec)) = last.rec
          /\ current_offset = Len(files[active_file_id])

\* C38: within one set, the rotation threshold and the durability mode are
\* those of one configuration: some configuration in force during the call
\* has both the max_file_size and the write_mod the set used.
C38_SetReadsOneSnapshot ==
    last.op = "set_configured" =>
        \E config \in last.seen :
            /\ config.max_file_size = last.max_file_size
            /\ config.write_mod = last.write_mod

\* C39: once the configuration file has been changed to a valid
\* configuration that the handles do not return yet, and for as long as a
\* handle is alive and the file is not changed again, the handles come to
\* return the configuration of the file.
C39_UpdatesEventuallyVisible ==
    \A m \in 1..MaxEdits :
        (/\ phase = "config"
         /\ kv.mtime = m /\ session.last_mtime # m
         /\ session.handles > 0)
            ~> (\/ session.inner = ConfigLoad(kv)
                \/ session.handles = 0
                \/ kv.mtime # m)
====
